---------------------------- MODULE Spec2Model ----------------------------
(***************************************************************************)
(* Model of the council staff dashboards (mutlicouncil-staff, mywcc-staff, *)
(* myhcc-staff): the metrics engine (Gini, Lorenz curve), the job-title    *)
(* keyword classifiers, the group mapping tables and the normalisation of  *)
(* the star-schema (WCC) and flat-table (HCC) inputs into unified records. *)
(*                                                                         *)
(* Numbers the code computes in floating point are modelled as exact       *)
(* fractions [num, den]; the value numpy produces for 0/0 is NaNValue.     *)
(***************************************************************************)
EXTENDS Integers, Sequences, FiniteSets, TLC

VARIABLES
    values,          \* metrics: the grouped totals handed to the metrics functions
    gini,            \* metrics: last result of calculate_gini, or Unset
    lorenz,          \* metrics: last Lorenz curve [x, y] drawn, or Unset
    title_cell,      \* classifiers: the job title cell classified
    category,        \* classifiers: result of categorize_job_title, or NotRun
    level,           \* classifiers: result of get_job_level, or NotRun
    app,             \* which dashboard runs on the files
    csv,             \* the CSV files beside the app (read only)
    council_select,  \* multi-council: input.council_select()
    staff,           \* multi-council: value of staff_assignments()
    hcc,             \* multi-council: value of hcc_data()
    merged,          \* value of merged_data() (myhcc: the prepared df)
    mapping,         \* multi-council: table rendered by department_mapping
    alignment,       \* multi-council: rows charted by structural_alignment
    download,        \* multi-council: table written by download_mapping
    overlap,         \* multi-council: what job_overlap computed
    filters,         \* the values of the filter inputs
    choices,         \* the option lists the effects sent to the filters
    filtered,        \* value of filtered_data()
    out              \* what each output last rendered

metricsVars == <<values, gini, lorenz>>
titleVars == <<title_cell, category, level>>
reportVars == <<mapping, alignment, download, overlap>>
filterVars == <<filters, choices, filtered, out>>
appVars == <<app, csv, council_select, staff, hcc, merged, reportVars,
            filterVars>>
vars == <<metricsVars, titleVars, appVars>>

(***************************************************************************)
(* Bounds of the model.                                                    *)
(***************************************************************************)
MaxLen == 3     \* longest sequence of grouped totals
MaxVal == 3     \* largest grouped total
MaxFrags == 2   \* most fragments a generated job title is built from
MaxFact == 2    \* most rows of StaffAssignments.csv
MaxHccRows == 2 \* most rows of hccpositioninfo.csv
SynthPositions == 1  \* synthetic positions per unit (10..50 in the code)
MaxTitleRows == 2    \* most rows of JobTitles.csv when titles are compared

Unset == [kind |-> "unset"]

(***************************************************************************)
(* Floating point values as exact fractions.                               *)
(***************************************************************************)
NaNValue == [kind |-> "nan"]
InfValue == [kind |-> "inf"]
Frac(a, b) == [kind |-> "num", num |-> a, den |-> b]

\* numpy's a / b on integer scalars: 0/0 is nan (a warning, no exception),
\* a/0 is inf, anything else the quotient.
TrueDivide(a, b) ==
    IF b = 0 THEN (IF a = 0 THEN NaNValue ELSE InfValue) ELSE Frac(a, b)

\* x - y on floats; nan and inf propagate.
FloatSub(x, y) ==
    IF x.kind = "nan" \/ y.kind = "nan" THEN NaNValue
    ELSE IF x.kind = "inf" THEN InfValue
    ELSE Frac(x.num * y.den - y.num * x.den, x.den * y.den)

IsNum(x) == x.kind = "num"
FracEq(x, y) == IsNum(x) /\ IsNum(y) /\ x.num * y.den = y.num * x.den
FracLeq(x, y) ==
    /\ IsNum(x) /\ IsNum(y)
    /\ IF x.den * y.den > 0 THEN x.num * y.den <= y.num * x.den
                            ELSE x.num * y.den >= y.num * x.den
FracLt(x, y) == FracLeq(x, y) /\ ~FracEq(x, y)

(***************************************************************************)
(* sorted(values) / Series.sort_values(): ascending insertion sort.        *)
(***************************************************************************)
RECURSIVE Insert(_, _)
Insert(v, s) ==
    IF s = <<>> THEN <<v>>
    ELSE IF v <= Head(s) THEN <<v>> \o s
    ELSE <<Head(s)>> \o Insert(v, Tail(s))

RECURSIVE Sorted(_)
Sorted(s) == IF s = <<>> THEN <<>> ELSE Insert(Head(s), Sorted(Tail(s)))

\* np.cumsum / Series.cumsum: element i is the sum of the first i elements.
RECURSIVE SumTo(_, _)
SumTo(s, i) == IF i = 0 THEN 0 ELSE SumTo(s, i - 1) + s[i]

CumSum(s) == [i \in 1..Len(s) |-> SumTo(s, i)]

Sum(s) == SumTo(s, Len(s))

\* np.sum((i + 1) * sorted_values[i] for i in range(n)), ranks 1-based here.
RECURSIVE RankWeightedSum(_, _)
RankWeightedSum(s, i) ==
    IF i = 0 THEN 0 ELSE RankWeightedSum(s, i - 1) + i * s[i]

(***************************************************************************)
(* calculate_gini(values)                                                  *)
(***************************************************************************)
calculate_gini_unsorted(vals) ==
    IF Len(vals) = 0 THEN Frac(0, 1)
    ELSE LET n == Len(vals)
             cumsum == CumSum(vals)
         IN  FloatSub(TrueDivide(2 * RankWeightedSum(vals, n), n * cumsum[n]),
                      TrueDivide(n + 1, n))

calculate_gini(vals) ==
    IF Len(vals) = 0 THEN Frac(0, 1)
    ELSE LET sorted_values == Sorted(vals)
             n == Len(vals)
             cumsum == CumSum(sorted_values)
         IN  FloatSub(TrueDivide(2 * RankWeightedSum(sorted_values, n),
                                 n * cumsum[n]),
                      TrueDivide(n + 1, n))

(***************************************************************************)
(* The Lorenz curve of location_concentration / concentration_chart:       *)
(*   totals = ....sum().sort_values()                                      *)
(*   cumsum = totals.cumsum() / totals.sum()                               *)
(*   x      = np.arange(len(totals)) / len(totals)                         *)
(* and the trace is drawn with x=x, y=cumsum.                              *)
(***************************************************************************)
CumShareNotAccumulated(totals) ==
    [i \in 1..Len(totals) |-> TrueDivide(totals[i], Sum(totals))]

CumShare(totals) ==
    LET c == CumSum(totals)
    IN  [i \in 1..Len(totals) |-> TrueDivide(c[i], Sum(totals))]

\* np.arange(n) / n: the n values 0/n .. (n-1)/n (element k of the sequence
\* is (k-1)/n); the empty array when n = 0.
ArangeOverLen(n) == [k \in 1..n |-> TrueDivide(k - 1, n)]

LorenzCurve(vals) ==
    LET totals == Sorted(vals)
    IN  [kind |-> "curve",
         x |-> ArangeOverLen(Len(totals)),
         y |-> CumShare(totals)]

(***************************************************************************)
(* Metrics harness: the totals are any bounded sequence of non-negative    *)
(* integers (a groupby(...).sum() of StaffCount), and each chart/handler   *)
(* applies the functions to them.                                          *)
(***************************************************************************)
BoundedSeqs(S, n) == UNION {[1..k -> S] : k \in 0..n}

TotalsInputs == BoundedSeqs(0..MaxVal, MaxLen)

MetricsInit ==
    /\ values \in TotalsInputs
    /\ gini = Unset
    /\ lorenz = Unset

\* Any caller of calculate_gini (organizational_metrics, complexity_score...).
CalculateGini ==
    /\ gini = Unset
    /\ gini' = calculate_gini(values)
    /\ UNCHANGED <<values, lorenz, titleVars, appVars>>

\* multi-council location_concentration: returns early on empty data.
LocationConcentration ==
    /\ lorenz = Unset
    /\ Len(values) > 0
    /\ lorenz' = LorenzCurve(values)
    /\ gini' = calculate_gini(Sorted(values))
    /\ UNCHANGED <<values, titleVars, appVars>>

\* mywcc concentration_chart: no emptiness guard, no Gini.
ConcentrationChart ==
    /\ lorenz = Unset
    /\ lorenz' = LorenzCurve(values)
    /\ UNCHANGED <<values, gini, titleVars, appVars>>

MetricsNext == CalculateGini \/ LocationConcentration \/ ConcentrationChart


(***************************************************************************)
(* Properties of the metrics engine.                                       *)
(***************************************************************************)
Zero == Frac(0, 1)
One == Frac(1, 1)

AllEqual(s) == \A i, j \in 1..Len(s) : s[i] = s[j]

Abs(a) == IF a < 0 THEN -a ELSE a

RECURSIVE SumOver(_, _)
SumOver(f, S) ==
    IF S = {} THEN 0
    ELSE LET e == CHOOSE e \in S : TRUE IN f[e] + SumOver(f, S \ {e})

\* Sum over all ordered pairs (i, j) of |s[i] - s[j]|.
SumAbsDiff(s) ==
    LET P == (1..Len(s)) \X (1..Len(s))
    IN  SumOver([p \in P |-> Abs(s[p[1]] - s[p[2]])], P)

\* C1: calculate_gini returns 0 (no exception, no undefined value) for the
\* empty sequence and for every non-empty sequence whose values are all zero.
C1_GiniDegenerateIsZero ==
    (gini # Unset /\ Sum(values) = 0) => FracEq(gini, Zero)

\* C2: for a non-empty sequence of non-negative integers with a positive
\* value, calculate_gini is a number G with 0 <= G < 1, G = 0 exactly when
\* all elements are equal; the rank formula over the sorted values equals the
\* order-free mean-difference form Sum|x_i - x_j| / (2 n Sum x).
C2_GiniRange ==
    (gini # Unset /\ Len(values) > 0 /\ Sum(values) > 0) =>
        /\ IsNum(gini)
        /\ FracLeq(Zero, gini)
        /\ FracLt(gini, One)
        /\ (FracEq(gini, Zero) <=> AllEqual(values))
        /\ FracEq(gini, Frac(SumAbsDiff(values),
                             2 * Len(values) * Sum(values)))

\* The Gini coefficient was computed for unsorted, unequal totals.
C2_Witness ==
    /\ gini # Unset
    /\ Len(values) = 3
    /\ values[1] > values[2]
    /\ values[2] > values[3]
    /\ FracLt(Zero, gini)

\* C3: the Lorenz curve of n totals has n+1 points (i/n, cumulative share of
\* the i smallest totals), i = 0..n: first the origin, last with x = 1.
C3_LorenzHasOrigin ==
    (lorenz # Unset /\ Sum(values) > 0) =>
        LET n == Len(values)
            c == CumSum(Sorted(values))
        IN  /\ Len(lorenz.x) = n + 1
            /\ Len(lorenz.y) = n + 1
            /\ FracEq(lorenz.x[1], Zero) /\ FracEq(lorenz.y[1], Zero)
            /\ FracEq(lorenz.x[n + 1], One)
            /\ \A i \in 1..n :
                 /\ FracEq(lorenz.x[i + 1], Frac(i, n))
                 /\ FracEq(lorenz.y[i + 1], Frac(c[i], Sum(values)))

\* C4: for non-empty totals with positive sum the last cumulative share of
\* the Lorenz curve is 1 and the shares are non-decreasing along the curve.
C4_LorenzEndsAtOne ==
    (lorenz # Unset /\ Len(values) > 0 /\ Sum(values) > 0) =>
        /\ Len(lorenz.y) = Len(values)
        /\ FracEq(lorenz.y[Len(lorenz.y)], One)
        /\ \A i, j \in 1..Len(lorenz.y) :
             i <= j => FracLeq(lorenz.y[i], lorenz.y[j])

\* A Lorenz curve was drawn for several unequal, unsorted positive totals.
C4_Witness ==
    /\ lorenz # Unset
    /\ Len(values) = 3
    /\ values[1] > values[2]
    /\ values[3] > 0 /\ values[2] > values[3]
    /\ FracLt(lorenz.y[1], lorenz.y[2])

(***************************************************************************)
(* Strings are sequences of one-character strings, so that str.lower(),    *)
(* str.strip() and `word in title` are computed character by character.    *)
(* A table cell is a string or the missing value NaN (what pandas holds    *)
(* for an empty CSV field and for a failed left-join lookup).              *)
(***************************************************************************)
Str(s) == [na |-> FALSE, s |-> s]
NaN == [na |-> TRUE, s |-> <<>>]

\* Python truthiness of a cell: only the empty string is falsy; bool(nan)
\* is True.
Falsy(cell) == ~cell.na /\ cell.s = <<>>

LowerLetters ==
    << "a","b","c","d","e","f","g","h","i","j","k","l","m",
       "n","o","p","q","r","s","t","u","v","w","x","y","z" >>

UpperLetters ==
    << "A","B","C","D","E","F","G","H","I","J","K","L","M",
       "N","O","P","Q","R","S","T","U","V","W","X","Y","Z" >>

LetterIndex(alphabet, c) == CHOOSE i \in 1..Len(alphabet) : alphabet[i] = c
IsLetterOf(alphabet, c) == \E i \in 1..Len(alphabet) : alphabet[i] = c

CharLower(c) ==
    IF IsLetterOf(UpperLetters, c) THEN LowerLetters[LetterIndex(UpperLetters, c)]
    ELSE c
CharUpper(c) ==
    IF IsLetterOf(LowerLetters, c) THEN UpperLetters[LetterIndex(LowerLetters, c)]
    ELSE c

\* str.lower() / str.upper()
StrLower(s) == [i \in 1..Len(s) |-> CharLower(s[i])]
StrUpper(s) == [i \in 1..Len(s) |-> CharUpper(s[i])]

\* `word in text` on Python strings: word occurs as a contiguous substring.
Contains(text, word) ==
    \E k \in 0..(Len(text) - Len(word)) :
        SubSeq(text, k + 1, k + Len(word)) = word

\* any(word in text for word in words)
AnyWordIn(words, text) == \E i \in 1..Len(words) : Contains(text, words[i])

(***************************************************************************)
(* The keyword lists of categorize_job_title and get_job_level.            *)
(***************************************************************************)
CategoryManagementWords ==
    << <<"m","a","n","a","g","e","r">>,
       <<"h","e","a","d">>,
       <<"d","i","r","e","c","t","o","r">>,
       <<"c","h","i","e","f">>,
       <<"l","e","a","d","e","r">>,
       <<"s","u","p","e","r","v","i","s","o","r">> >>

CategoryProfessionalWords ==
    << <<"a","n","a","l","y","s","t">>,
       <<"s","p","e","c","i","a","l","i","s","t">>,
       <<"a","d","v","i","s","o","r">>,
       <<"c","o","n","s","u","l","t","a","n","t">>,
       <<"p","l","a","n","n","e","r">> >>

CategoryTechnicalWords ==
    << <<"e","n","g","i","n","e","e","r">>,
       <<"t","e","c","h","n","i","c","i","a","n">>,
       <<"d","e","v","e","l","o","p","e","r">>,
       <<"a","r","c","h","i","t","e","c","t">> >>

CategoryAdministrativeWords ==
    << <<"o","f","f","i","c","e","r">>,
       <<"c","o","o","r","d","i","n","a","t","o","r">>,
       <<"a","d","m","i","n","i","s","t","r","a","t","o","r">>,
       <<"a","s","s","i","s","t","a","n","t">> >>

CategoryOperationalWords ==
    << <<"o","p","e","r","a","t","o","r">>,
       <<"d","r","i","v","e","r">>,
       <<"c","l","e","a","n","e","r">>,
       <<"m","a","i","n","t","e","n","a","n","c","e">> >>

LevelExecutiveWords ==
    << <<"c","h","i","e","f">>,
       <<"d","i","r","e","c","t","o","r">>,
       <<"h","e","a","d"," ","o","f">> >>

LevelManagementWords ==
    << <<"m","a","n","a","g","e","r">>,
       <<"t","e","a","m"," ","l","e","a","d","e","r">>,
       <<"s","u","p","e","r","v","i","s","o","r">> >>

LevelSeniorWords ==
    << <<"s","e","n","i","o","r">>,
       <<"p","r","i","n","c","i","p","a","l">>,
       <<"l","e","a","d">> >>

LevelJuniorWords ==
    << <<"j","u","n","i","o","r">>,
       <<"a","s","s","i","s","t","a","n","t">>,
       <<"t","r","a","i","n","e","e">> >>

\* What a handler yields when title.lower() is called on a float (NaN).
AttributeError == "AttributeError"

(***************************************************************************)
(* categorize_job_title(title)                                             *)
(***************************************************************************)
categorize_job_title_case_sensitive(title) ==
    IF Falsy(title) THEN "Other"
    ELSE IF title.na THEN AttributeError
    ELSE LET title_lower == title.s
         IN  IF AnyWordIn(CategoryManagementWords, title_lower) THEN "Management"
             ELSE IF AnyWordIn(CategoryProfessionalWords, title_lower) THEN "Professional"
             ELSE IF AnyWordIn(CategoryTechnicalWords, title_lower) THEN "Technical"
             ELSE IF AnyWordIn(CategoryAdministrativeWords, title_lower) THEN "Administrative"
             ELSE IF AnyWordIn(CategoryOperationalWords, title_lower) THEN "Operational"
             ELSE "Other"

categorize_job_title(title) ==
    IF Falsy(title) THEN "Other"
    ELSE IF title.na THEN AttributeError
    ELSE LET title_lower == StrLower(title.s)
         IN  IF AnyWordIn(CategoryManagementWords, title_lower) THEN "Management"
             ELSE IF AnyWordIn(CategoryProfessionalWords, title_lower) THEN "Professional"
             ELSE IF AnyWordIn(CategoryTechnicalWords, title_lower) THEN "Technical"
             ELSE IF AnyWordIn(CategoryAdministrativeWords, title_lower) THEN "Administrative"
             ELSE IF AnyWordIn(CategoryOperationalWords, title_lower) THEN "Operational"
             ELSE "Other"

(***************************************************************************)
(* get_job_level(title)                                                    *)
(***************************************************************************)
get_job_level_senior_first(title) ==
    IF Falsy(title) THEN "Unknown"
    ELSE IF title.na THEN AttributeError
    ELSE LET title_lower == StrLower(title.s)
         IN  IF AnyWordIn(LevelExecutiveWords, title_lower) THEN "Executive"
             ELSE IF AnyWordIn(LevelSeniorWords, title_lower) THEN "Senior"
             ELSE IF AnyWordIn(LevelManagementWords, title_lower) THEN "Management"
             ELSE IF AnyWordIn(LevelJuniorWords, title_lower) THEN "Junior"
             ELSE "Mid-level"

get_job_level(title) ==
    IF Falsy(title) THEN "Unknown"
    ELSE IF title.na THEN AttributeError
    ELSE LET title_lower == StrLower(title.s)
         IN  IF AnyWordIn(LevelExecutiveWords, title_lower) THEN "Executive"
             ELSE IF AnyWordIn(LevelManagementWords, title_lower) THEN "Management"
             ELSE IF AnyWordIn(LevelSeniorWords, title_lower) THEN "Senior"
             ELSE IF AnyWordIn(LevelJuniorWords, title_lower) THEN "Junior"
             ELSE "Mid-level"

(***************************************************************************)
(* Classifier harness: job titles are built from up to MaxFrags fragments  *)
(* (keywords of several lists, parts of keywords, a word that is in no     *)
(* list) in one of four letter cases; the title may also be NaN.           *)
(***************************************************************************)
TitleFragments ==
    << <<"t","e","a","m"," ">>,
       <<"l","e","a","d","e","r">>,
       <<"l","e","a","d">>,
       <<"h","e","a","d">>,
       <<" ","o","f"," ">>,
       <<"m","a","n","a","g","e","r">>,
       <<"s","e","n","i","o","r"," ">>,
       <<"a","n","a","l","y","s","t">>,
       <<"e","n","g","i","n","e","e","r">>,
       <<"o","f","f","i","c","e","r">>,
       <<"a","s","s","i","s","t","a","n","t">>,
       <<"d","r","i","v","e","r">>,
       <<"n","u","r","s","e">>,
       <<"j","u","n","i","o","r"," ">> >>

RECURSIVE Concat(_)
Concat(ss) == IF ss = <<>> THEN <<>> ELSE Head(ss) \o Concat(Tail(ss))

LetterCases == {"lower", "upper", "capital", "alternate"}

ApplyCase(s, case) ==
    [i \in 1..Len(s) |->
        CASE case = "lower" -> s[i]
          [] case = "upper" -> CharUpper(s[i])
          [] case = "capital" -> IF i = 1 THEN CharUpper(s[i]) ELSE s[i]
          [] case = "alternate" -> IF i % 2 = 0 THEN CharUpper(s[i]) ELSE s[i]]

TitleStrings ==
    { ApplyCase(Concat([i \in 1..Len(fs) |-> TitleFragments[fs[i]]]), case) :
        fs \in BoundedSeqs(1..Len(TitleFragments), MaxFrags), case \in LetterCases }

TitleInputs == {Str(s) : s \in TitleStrings} \cup {NaN}

NotRun == "<not run>"

TitlesInit ==
    /\ title_cell \in TitleInputs
    /\ category = NotRun
    /\ level = NotRun

CategorizeJobTitle ==
    /\ category = NotRun
    /\ category' = categorize_job_title(title_cell)
    /\ UNCHANGED <<title_cell, level, metricsVars, appVars>>

GetJobLevel ==
    /\ level = NotRun
    /\ level' = get_job_level(title_cell)
    /\ UNCHANGED <<title_cell, category, metricsVars, appVars>>

TitlesNext == CategorizeJobTitle \/ GetJobLevel

(***************************************************************************)
(* String constants, as character sequences: the group names of           *)
(* GROUP_MAPPINGS, the other literals of the apps, and the names used in   *)
(* the generated input tables.  Neighbourhoods_Communities_Sp is the key   *)
(* with the trailing space.                                                *)
(***************************************************************************)
Lit ==
    [ Economy_Development |->
        <<"E","c","o","n","o","m","y"," ","&"," ","D","e","v","e","l",
          "o","p","m","e","n","t">>,
      Economic_Engagement |->
        <<"E","c","o","n","o","m","i","c"," ","&"," ","E","n","g","a",
          "g","e","m","e","n","t">>,
      Environment_Sustainability |->
        <<"E","n","v","i","r","o","n","m","e","n","t"," ","&"," ","S",
          "u","s","t","a","i","n","a","b","i","l","i","t","y">>,
      Planning_Environment |->
        <<"P","l","a","n","n","i","n","g"," ","&"," ","E","n","v","i",
          "r","o","n","m","e","n","t">>,
      Neighbourhoods_Communities |->
        <<"N","e","i","g","h","b","o","u","r","h","o","o","d","s"," ",
          "&"," ","C","o","m","m","u","n","i","t","i","e","s">>,
      Neighbourhoods_Communities_Sp |->
        <<"N","e","i","g","h","b","o","u","r","h","o","o","d","s"," ",
          "&"," ","C","o","m","m","u","n","i","t","i","e","s"," ">>,
      Customer_Community |->
        <<"C","u","s","t","o","m","e","r"," ","&"," ","C","o","m","m",
          "u","n","i","t","y">>,
      Office_of_the_Chief_Executive |->
        <<"O","f","f","i","c","e"," ","o","f"," ","t","h","e"," ","C",
          "h","i","e","f"," ","E","x","e","c","u","t","i","v","e">>,
      Chief_Executives_Office |->
        <<"C","h","i","e","f"," ","E","x","e","c","u","t","i","v","e",
          "s"," ","O","f","f","i","c","e">>,
      Strategy_Engagement |->
        <<"S","t","r","a","t","e","g","y"," ","&"," ","E","n","g","a",
          "g","e","m","e","n","t">>,
      Strategy_Finance |->
        <<"S","t","r","a","t","e","g","y"," ","&"," ","F","i","n","a",
          "n","c","e">>,
      \* other string constants of the apps
      No_Direct_Equivalent |->
        <<"N","o"," ","D","i","r","e","c","t"," ","E","q","u","i","v",
          "a","l","e","n","t">>,
      Wellington_City |->
        <<"W","e","l","l","i","n","g","t","o","n"," ","C","i","t","y">>,
      Hutt_City |->
        <<"H","u","t","t"," ","C","i","t","y">>,
      Wellington |->
        <<"W","e","l","l","i","n","g","t","o","n">>,
      Hutt |->
        <<"H","u","t","t">>,
      All |->
        <<"A","l","l">>,
      All_WCC |->
        <<"A","l","l"," ","W","C","C">>,
      All_HCC |->
        <<"A","l","l"," ","H","C","C">>,
      No_Manager |->
        <<"N","o"," ","M","a","n","a","g","e","r">>,
      \* values of the generated input tables
      Parks |->
        <<"P","a","r","k","s">>,
      Roads |->
        <<"R","o","a","d","s">>,
      Manager |->
        <<"M","a","n","a","g","e","r">>,
      Policy_Analyst |->
        <<"P","o","l","i","c","y"," ","A","n","a","l","y","s","t">>,
      Civic_Centre |->
        <<"C","i","v","i","c"," ","C","e","n","t","r","e">>,
      City_Growth |->
        <<"C","i","t","y"," ","G","r","o","w","t","h">> ]

(***************************************************************************)
(* GROUP_MAPPINGS (HCC group -> WCC group), in the order of the dict       *)
(* literal, and REVERSE_GROUP_MAPPINGS = {v: k for k, v in ...items()}.    *)
(* A Python dict is modelled as the sequence of its (key, value) items in  *)
(* insertion order; assigning an existing key replaces its value in place. *)
(***************************************************************************)
DictHas(d, k) == \E i \in 1..Len(d) : d[i][1] = k
DictGet(d, k) == d[CHOOSE i \in 1..Len(d) : d[i][1] = k][2]

DictSet(d, k, v) ==
    IF DictHas(d, k)
    THEN [i \in 1..Len(d) |-> IF d[i][1] = k THEN <<k, v>> ELSE d[i]]
    ELSE Append(d, <<k, v>>)

\* The dict built from a sequence of (key, value) pairs, assigned in order.
RECURSIVE DictOf(_, _)
DictOf(pairs, n) ==
    IF n = 0 THEN <<>>
    ELSE DictSet(DictOf(pairs, n - 1), pairs[n][1], pairs[n][2])

GroupMappingItems ==
    << <<Lit.Economy_Development, Lit.Economic_Engagement>>,
       <<Lit.Environment_Sustainability, Lit.Planning_Environment>>,
       <<Lit.Neighbourhoods_Communities, Lit.Customer_Community>>,
       <<Lit.Neighbourhoods_Communities_Sp, Lit.Customer_Community>>,
       <<Lit.Office_of_the_Chief_Executive, Lit.Chief_Executives_Office>>,
       <<Lit.Strategy_Engagement, Lit.Strategy_Finance>> >>

GROUP_MAPPINGS == DictOf(GroupMappingItems, Len(GroupMappingItems))

REVERSE_GROUP_MAPPINGS ==
    LET items == GROUP_MAPPINGS
    IN  DictOf([i \in 1..Len(items) |-> <<items[i][2], items[i][1]>>],
               Len(items))

(***************************************************************************)
(* Table cells, files and DataFrames.                                      *)
(***************************************************************************)
\* An id cell: an integer, or NaN after a failed left-join lookup.
Id(i) == [na |-> FALSE, id |-> i]
NaNId == [na |-> TRUE, id |-> 0]

\* A CSV file beside the app: missing, or its data rows (the header row is
\* always there when the file is).
Absent == [exists |-> FALSE, rows |-> <<>>]
File(rows) == [exists |-> TRUE, rows |-> rows]

\* A DataFrame: whether it has its columns, and its rows.  A handler that
\* raised has the exception's name as status.
Frame(rows) == [status |-> "ok", cols |-> TRUE, rows |-> rows]
EmptyFrame == [status |-> "ok", cols |-> FALSE, rows |-> <<>>]  \* pd.DataFrame()
Raised(e) == [status |-> e, cols |-> FALSE, rows |-> <<>>]
NotComputed == [status |-> "not computed", cols |-> FALSE, rows |-> <<>>]

Ok(df) == df.status = "ok"
IsEmpty(df) == df.rows = <<>>       \* DataFrame.empty

\* df[column] = value
WithColumn(df, column, value) ==
    IF ~Ok(df) THEN df
    ELSE Frame([i \in 1..Len(df.rows) |-> (column :> value) @@ df.rows[i]])

\* str.strip(): drop leading and trailing whitespace characters.
Whitespace == {" ", "\t"}

RECURSIVE LStrip(_)
LStrip(s) ==
    IF s # <<>> /\ Head(s) \in Whitespace THEN LStrip(Tail(s)) ELSE s

RECURSIVE RStrip(_)
RStrip(s) ==
    IF s # <<>> /\ s[Len(s)] \in Whitespace
    THEN RStrip(SubSeq(s, 1, Len(s) - 1)) ELSE s

Strip(s) == RStrip(LStrip(s))

\* Series.str.strip() on one cell: NaN stays NaN.
StripCell(c) == IF c.na THEN c ELSE Str(Strip(c.s))

\* The .str accessor raises on a column that holds no string at all (a
\* non-empty all-NaN column is read as float64).
StrAccessorRaises(rows, column) ==
    rows # <<>> /\ \A i \in 1..Len(rows) : rows[i][column].na

(***************************************************************************)
(* DataFrame.merge(right, on=key, how='left'): every left row once per     *)
(* matching right row, in order; once with NaN right columns when no right *)
(* row matches.  A missing key column raises KeyError.                     *)
(***************************************************************************)
MatchingRows(l, right, key) ==
    SelectSeq(right.rows, LAMBDA r : r[key] = l[key])

MergeRow(l, right, key, nulls) ==
    LET m == MatchingRows(l, right, key)
    IN  IF m = <<>> THEN << l @@ nulls >>
        ELSE [i \in 1..Len(m) |-> l @@ m[i]]

MergeLeft(left, right, key, nulls) ==
    IF ~Ok(left) THEN left
    ELSE IF ~left.cols \/ ~right.cols THEN Raised("KeyError")
    ELSE Frame(Concat([i \in 1..Len(left.rows) |->
                          MergeRow(left.rows[i], right, key, nulls)]))

UnitNulls == [UnitName |-> NaN, GroupID |-> NaNId]
GroupNulls == [GroupName |-> NaN]
TitleNulls == [JobTitle |-> NaN]
LocationNulls == [LocationName |-> NaN]

\* df['JobCategory'] = df[column].apply(categorize_job_title)
\* df['JobLevel']    = df[column].apply(get_job_level)
AddJobColumns(df, column) ==
    IF ~Ok(df) THEN df
    ELSE IF \E i \in 1..Len(df.rows) :
              categorize_job_title(df.rows[i][column]) = AttributeError
         THEN Raised(AttributeError)
    ELSE Frame([i \in 1..Len(df.rows) |->
                  [JobCategory |-> categorize_job_title(df.rows[i][column]),
                   JobLevel |-> get_job_level(df.rows[i][column])]
                  @@ df.rows[i]])

(***************************************************************************)
(* Multi-council app: availability flags and the table loaders.            *)
(***************************************************************************)
WCC == "Wellington City Council"
HCC == "Hutt City Council"
COMPARE == "Compare Councils"

wcc_files ==
    {"BusinessGroups", "BusinessUnits", "JobTitles", "PayLocations",
     "StaffAssignments"}

wcc_available(files) ==
    Cardinality({f \in wcc_files : files[f].exists}) >= 3

hcc_available(files) == files.hccpositioninfo.exists

\* update_council_choices: the views offered, first one selected.
council_choices(files) ==
    (IF wcc_available(files) THEN <<WCC>> ELSE <<>>)
    \o (IF hcc_available(files) THEN <<HCC>> ELSE <<>>)
    \o (IF wcc_available(files) /\ hcc_available(files) THEN <<COMPARE>> ELSE <<>>)

\* business_groups / business_units / job_titles / pay_locations
LoadWccTable(files, sel, f) ==
    IF sel \in {WCC, COMPARE} /\ wcc_available(files)
    THEN (IF files[f].exists THEN Frame(files[f].rows) ELSE EmptyFrame)
    ELSE EmptyFrame

business_groups(files, sel) == LoadWccTable(files, sel, "BusinessGroups")
business_units(files, sel) == LoadWccTable(files, sel, "BusinessUnits")
job_titles(files, sel) == LoadWccTable(files, sel, "JobTitles")
pay_locations(files, sel) == LoadWccTable(files, sel, "PayLocations")

\* The synthetic assignments staff_assignments generates when the file cannot
\* be read: per unit row num_positions rows (randint(10, 51) in the code,
\* SynthPositions here), each with the TitleID of a sampled job row, a
\* LocationID and a StaffCount from randint(1, 6) (sampled at both ends).
SyntheticRowsOf(unit, jobs) ==
    { [UnitID |-> unit.UnitID, TitleID |-> jobs[j].TitleID,
       LocationID |-> Id(l), StaffCount |-> c] :
        j \in 1..Len(jobs), l \in {1, 5}, c \in {1, 5} }

RECURSIVE SyntheticAssignments(_, _)
SyntheticAssignments(units, jobs) ==
    IF units = <<>> THEN {<<>>}
    ELSE { first \o rest :
             first \in [1..SynthPositions -> SyntheticRowsOf(Head(units), jobs)],
             rest \in SyntheticAssignments(Tail(units), jobs) }

\* staff_assignments(): the set of values the call can return.
staff_assignments(files, sel) ==
    IF sel \in {WCC, COMPARE} /\ wcc_available(files)
    THEN IF files.StaffAssignments.exists
         THEN {Frame(files.StaffAssignments.rows)}
         ELSE IF ~IsEmpty(business_units(files, sel))
                 /\ ~IsEmpty(job_titles(files, sel))
              THEN {Frame(a) : a \in SyntheticAssignments(
                                        business_units(files, sel).rows,
                                        job_titles(files, sel).rows)}
              ELSE {EmptyFrame}
    ELSE {EmptyFrame}

(***************************************************************************)
(* hcc_data(): the flat position list, cleaned.                            *)
(***************************************************************************)
\* df['Group'].map(GROUP_MAPPINGS).fillna('No Direct Equivalent')
WccEquivalentGroup(group) ==
    IF ~group.na /\ DictHas(GROUP_MAPPINGS, group.s)
    THEN Str(DictGet(GROUP_MAPPINGS, group.s))
    ELSE Str(Lit.No_Direct_Equivalent)

HccCleanRow(r) ==
    LET g == StripCell(r.Group)
    IN  [Group |-> g, StaffCount |-> 1,
         WCC_Equivalent_Group |-> WccEquivalentGroup(g)] @@ r

HccClean(rows) ==
    IF StrAccessorRaises(rows, "Group") THEN Raised(AttributeError)
    ELSE AddJobColumns(
            Frame([i \in 1..Len(rows) |-> HccCleanRow(rows[i])]),
            "Job_Title")

hcc_data(files, sel) ==
    IF sel \in {HCC, COMPARE} /\ hcc_available(files)
    THEN HccClean(files.hccpositioninfo.rows)
    ELSE EmptyFrame

(***************************************************************************)
(* merged_data(): the unified records of the selected view.                *)
(***************************************************************************)
\* The star-schema join of both WCC branches of merged_data.
WccJoin(sa, bu, bg, jt, pl) ==
    LET m == MergeLeft(MergeLeft(MergeLeft(sa, bu, "UnitID", UnitNulls),
                                 bg, "GroupID", GroupNulls),
                       jt, "TitleID", TitleNulls)
    IN  IF ~IsEmpty(pl) THEN MergeLeft(m, pl, "LocationID", LocationNulls)
        ELSE WithColumn(m, "LocationName", Str(Lit.Wellington_City))

\* The HCC rows renamed to the unified columns.
HccUnifiedRow(r) ==
    [GroupName |-> r.Group, UnitName |-> r.Division, JobTitle |-> r.Job_Title,
     LocationName |-> Str(Lit.Hutt_City), ManagerTitle |-> r.Manager_Job_Title]
    @@ r

HccUnified(df) == Frame([i \in 1..Len(df.rows) |-> HccUnifiedRow(df.rows[i])])

\* pd.concat([a, b]) of two frames that did not raise.
ConcatFrames(a, b) ==
    IF ~a.cols /\ ~b.cols THEN EmptyFrame ELSE Frame(a.rows \o b.rows)

merged_data(files, sel, sa, hccdf) ==
    LET bu == business_units(files, sel)
        bg == business_groups(files, sel)
        jt == job_titles(files, sel)
        pl == pay_locations(files, sel)
    IN  IF sel = WCC THEN
            IF IsEmpty(sa) THEN EmptyFrame
            ELSE AddJobColumns(WccJoin(sa, bu, bg, jt, pl), "JobTitle")
        ELSE IF sel = HCC THEN
            IF ~Ok(hccdf) THEN hccdf
            ELSE IF IsEmpty(hccdf) THEN EmptyFrame
            ELSE HccUnified(hccdf)
        ELSE
            LET wcc_part ==
                    IF wcc_available(files) /\ ~IsEmpty(sa)
                    THEN AddJobColumns(
                            WithColumn(WccJoin(sa, bu, bg, jt, pl),
                                       "Council", Str(Lit.Wellington)),
                            "JobTitle")
                    ELSE EmptyFrame
                hcc_part ==
                    IF ~hcc_available(files) THEN EmptyFrame
                    ELSE IF ~Ok(hccdf) THEN hccdf
                    ELSE IF IsEmpty(hccdf) THEN EmptyFrame
                    ELSE WithColumn(HccUnified(hccdf), "Council", Str(Lit.Hutt))
            IN  IF ~Ok(wcc_part) THEN wcc_part
                ELSE IF ~Ok(hcc_part) THEN hcc_part
                ELSE ConcatFrames(wcc_part, hcc_part)

(***************************************************************************)
(* mywcc-staff: merged_data() reads the five files and left-joins them.    *)
(***************************************************************************)
ReadCsv(file) ==
    IF file.exists THEN Frame(file.rows) ELSE Raised("FileNotFoundError")

mywcc_merged_data(files) ==
    LET sa == ReadCsv(files.StaffAssignments)
        bu == ReadCsv(files.BusinessUnits)
        bg == ReadCsv(files.BusinessGroups)
        jt == ReadCsv(files.JobTitles)
        pl == ReadCsv(files.PayLocations)
    IN  IF \E f \in {sa, bu, bg, jt, pl} : ~Ok(f)
        THEN Raised("FileNotFoundError")
        ELSE MergeLeft(MergeLeft(MergeLeft(MergeLeft(
                 sa, bu, "UnitID", UnitNulls), bg, "GroupID", GroupNulls),
                 jt, "TitleID", TitleNulls), pl, "LocationID", LocationNulls)

(***************************************************************************)
(* myhcc-staff: the module-level preparation of df.                        *)
(***************************************************************************)
MyHccPrepareRow(r) ==
    [Job_Title |-> StripCell(r.Job_Title),
     Group |-> StripCell(r.Group),
     Division |-> StripCell(r.Division),
     Manager_Job_Title |->
        IF r.Manager_Job_Title.na THEN Str(Lit.No_Manager)
        ELSE StripCell(r.Manager_Job_Title)]

myhcc_prepare(files) ==
    LET df == ReadCsv(files.hccpositioninfo)
    IN  IF ~Ok(df) THEN df
        ELSE IF \E c \in {"Job_Title", "Group", "Division"} :
                    StrAccessorRaises(df.rows, c)
             THEN Raised(AttributeError)
        ELSE Frame([i \in 1..Len(df.rows) |-> MyHccPrepareRow(df.rows[i])])

(***************************************************************************)
(* Tables of the Council Comparison tab: the column headers in order, and  *)
(* the rows.                                                               *)
(***************************************************************************)
Table(columns, rows) == [status |-> "ok", columns |-> columns, rows |-> rows]
EmptyTable == Table(<<>>, <<>>)                       \* pd.DataFrame()
RaisedTable(e) == [status |-> e, columns |-> <<>>, rows |-> <<>>]
NotRendered == [status |-> "not rendered", columns |-> <<>>, rows |-> <<>>]

\* Python's < on strings: by code point, a proper prefix first.
CharOrder == <<"\t", " ", "&">> \o UpperLetters \o LowerLetters
Ord(c) == CHOOSE i \in 1..Len(CharOrder) : CharOrder[i] = c

RECURSIVE StrLess(_, _)
StrLess(a, b) ==
    IF b = <<>> THEN FALSE
    ELSE IF a = <<>> THEN TRUE
    ELSE IF Head(a) = Head(b) THEN StrLess(Tail(a), Tail(b))
    ELSE Ord(Head(a)) < Ord(Head(b))

RECURSIVE SortStrings(_)
SortStrings(S) ==
    IF S = {} THEN <<>>
    ELSE LET m == CHOOSE m \in S : \A x \in S \ {m} : StrLess(m, x)
         IN  <<m>> \o SortStrings(S \ {m})

\* df.groupby(column)['StaffCount'].sum().to_dict(): the groups in sorted
\* order, rows with a NaN group name left out.
GroupSums(df, column) ==
    LET keys == SortStrings({df.rows[i][column].s :
                               i \in {j \in 1..Len(df.rows) : ~df.rows[j][column].na}})
    IN  [k \in 1..Len(keys) |->
            <<keys[k],
              Sum([i \in 1..Len(df.rows) |->
                      IF df.rows[i][column] = Str(keys[k])
                      THEN df.rows[i].StaffCount ELSE 0])>>]

\* dict.get(k, default)
DictGetOr(d, k, default) == IF DictHas(d, k) THEN DictGet(d, k) ELSE default

\* DataFrame.merge(right, on=key): the inner join, left rows in order, each
\* once per matching right row and not at all without one.
MergeInner(left, right, key) ==
    IF ~Ok(left) THEN left
    ELSE IF ~left.cols \/ ~right.cols THEN Raised("KeyError")
    ELSE Frame(Concat([i \in 1..Len(left.rows) |->
                  LET m == MatchingRows(left.rows[i], right, key)
                  IN  [j \in 1..Len(m) |-> left.rows[i] @@ m[j]]]))

\* The values of the 'Match Quality' / 'Mapping Type' / 'Alignment' columns
\* and the placeholder group name.
Quality ==
    [ Direct |-> <<"D","i","r","e","c","t">>,
      None |-> <<"N","o","n","e">>,
      WCC_Only |-> <<"W","C","C"," ","O","n","l","y">>,
      No_Match |-> <<"N","o"," ","M","a","t","c","h">>,
      No_Equivalent |-> <<"N","o"," ","E","q","u","i","v","a","l","e","n","t">> ]

MappingColumns ==
    <<"HCC Group", "HCC Staff", "WCC Equivalent", "WCC Staff",
      "Match Quality", "Staff Difference">>

\* df.sort_values(['Match Quality', 'Staff Difference']): ascending in both
\* columns, rows with equal keys in their former order.
MappingRowLess(a, b) ==
    \/ StrLess(a.Match_Quality, b.Match_Quality)
    \/ /\ a.Match_Quality = b.Match_Quality
       /\ a.Staff_Difference < b.Staff_Difference

RECURSIVE InsertMappingRow(_, _)
InsertMappingRow(r, rows) ==
    IF rows = <<>> THEN <<r>>
    ELSE IF MappingRowLess(r, Head(rows)) THEN <<r>> \o rows
    ELSE <<Head(rows)>> \o InsertMappingRow(r, Tail(rows))

RECURSIVE SortMappingRows(_, _)
SortMappingRows(rows, n) ==
    IF n = 0 THEN <<>>
    ELSE InsertMappingRow(rows[n], SortMappingRows(rows, n - 1))

\* department_mapping(): sa and hccdf are the values of staff_assignments()
\* and hcc_data() in the selected view.
department_mapping(files, sel, sa, hccdf) ==
    IF ~(wcc_available(files) /\ hcc_available(files)) THEN EmptyTable
    ELSE
    LET wcc_merged ==
            MergeInner(MergeInner(sa, business_units(files, sel), "UnitID"),
                       business_groups(files, sel), "GroupID")
        wcc_staff == IF IsEmpty(sa) THEN <<>> ELSE GroupSums(wcc_merged, "GroupName")
        hcc_staff == IF IsEmpty(hccdf) THEN <<>> ELSE GroupSums(hccdf, "Group")
        items == GROUP_MAPPINGS
        mapped ==
            [i \in 1..Len(items) |->
                LET hcc_count == DictGetOr(hcc_staff, items[i][1], 0)
                    wcc_count == DictGetOr(wcc_staff, items[i][2], 0)
                IN  [HCC_Group |-> items[i][1],
                     HCC_Staff |-> hcc_count,
                     WCC_Equivalent |-> items[i][2],
                     WCC_Staff |-> wcc_count,
                     Match_Quality |->
                        IF items[i][2] # Lit.No_Direct_Equivalent
                        THEN Quality.Direct ELSE Quality.None,
                     Staff_Difference |-> Abs(hcc_count - wcc_count)]]
        mapped_wcc == {items[i][2] : i \in 1..Len(items)}
        wcc_only ==
            SelectSeq(wcc_staff,
                      LAMBDA kv : kv[1] \notin mapped_wcc
                                  /\ kv[1] # Lit.No_Direct_Equivalent)
        unmapped ==
            [i \in 1..Len(wcc_only) |->
                [HCC_Group |-> Quality.No_Equivalent,
                 HCC_Staff |-> 0,
                 WCC_Equivalent |-> wcc_only[i][1],
                 WCC_Staff |-> wcc_only[i][2],
                 Match_Quality |-> Quality.WCC_Only,
                 Staff_Difference |-> wcc_only[i][2]]]
    IN  IF ~IsEmpty(sa) /\ ~Ok(wcc_merged) THEN RaisedTable(wcc_merged.status)
        ELSE IF ~Ok(hccdf) THEN RaisedTable(hccdf.status)
        ELSE Table(MappingColumns,
                   SortMappingRows(mapped \o unmapped, Len(mapped \o unmapped)))

\* structural_alignment(): the rows of df_align.
structural_alignment(files) ==
    IF ~(wcc_available(files) /\ hcc_available(files)) THEN EmptyTable
    ELSE LET items == GROUP_MAPPINGS
         IN  Table(<<"HCC Group", "WCC Group", "Alignment", "Score">>,
                   [i \in 1..Len(items) |->
                       IF items[i][2] # Lit.No_Direct_Equivalent
                       THEN [HCC_Group |-> items[i][1],
                             WCC_Group |-> items[i][2],
                             Alignment |-> Quality.Direct,
                             Score |-> Frac(1, 1)]
                       ELSE [HCC_Group |-> items[i][1],
                             WCC_Group |-> Quality.None,
                             Alignment |-> Quality.No_Match,
                             Score |-> Frac(0, 1)]])

\* download_mapping(): the rows written to council_department_mapping.csv.
download_mapping ==
    LET items == GROUP_MAPPINGS
    IN  Table(<<"HCC Group", "WCC Equivalent", "Mapping Type", "Notes">>,
              [i \in 1..Len(items) |->
                  [HCC_Group |-> items[i][1],
                   WCC_Equivalent |-> items[i][2],
                   Mapping_Type |->
                      IF items[i][2] # Lit.No_Direct_Equivalent
                      THEN Quality.Direct ELSE Quality.None,
                   Notes |-> "Based on functional similarity"]])

(***************************************************************************)
(* difflib.SequenceMatcher(None, a, b).ratio(): 2*M/T, where T is the      *)
(* number of characters of both strings and M the total size of the        *)
(* matching blocks: the longest common block (the earliest in a and, of    *)
(* those, the earliest in b), then the same to its left and to its right.  *)
(* Ranges are 1-based and inclusive here.  No character is junk for        *)
(* strings shorter than 200.                                               *)
(***************************************************************************)
RECURSIVE RunLength(_, _, _, _, _, _)
RunLength(a, b, i, j, ahi, bhi) ==
    IF i > ahi \/ j > bhi THEN 0
    ELSE IF a[i] # b[j] THEN 0
    ELSE 1 + RunLength(a, b, i + 1, j + 1, ahi, bhi)

find_longest_match(a, b, alo, ahi, blo, bhi) ==
    LET starts == (alo..ahi) \X (blo..bhi)
        k == IF starts = {} THEN 0
             ELSE CHOOSE n \in 0..Len(a) :
                    /\ \E st \in starts : RunLength(a, b, st[1], st[2], ahi, bhi) = n
                    /\ \A st \in starts : RunLength(a, b, st[1], st[2], ahi, bhi) <= n
        longest == {st \in starts : RunLength(a, b, st[1], st[2], ahi, bhi) = k}
        best == CHOOSE st \in longest :
                    \A o \in longest :
                        st[1] < o[1] \/ (st[1] = o[1] /\ st[2] <= o[2])
    IN  IF k = 0 THEN [i |-> alo, j |-> blo, size |-> 0]
        ELSE [i |-> best[1], j |-> best[2], size |-> k]

\* The sum of the sizes of get_matching_blocks().
RECURSIVE MatchedChars(_, _, _, _, _, _)
MatchedChars(a, b, alo, ahi, blo, bhi) ==
    LET m == find_longest_match(a, b, alo, ahi, blo, bhi)
    IN  IF m.size = 0 THEN 0
        ELSE m.size
             + (IF alo < m.i /\ blo < m.j
                THEN MatchedChars(a, b, alo, m.i - 1, blo, m.j - 1) ELSE 0)
             + (IF m.i + m.size <= ahi /\ m.j + m.size <= bhi
                THEN MatchedChars(a, b, m.i + m.size, ahi, m.j + m.size, bhi)
                ELSE 0)

\* The quotient 2.0*M/T is exact enough to compare: for titles of fewer than
\* a thousand characters two different quotients differ by far more than
\* the rounding of a double.
ratio(a, b) ==
    IF Len(a) + Len(b) = 0 THEN Frac(1, 1)
    ELSE Frac(2 * MatchedChars(a, b, 1, Len(a), 1, Len(b)), Len(a) + Len(b))

(***************************************************************************)
(* job_overlap(): exact and similar job titles of the two councils.        *)
(***************************************************************************)
SampleCap == 50     \* list(hcc_only)[:50], list(wcc_only)[:50]

\* Series.str.lower() on one cell: NaN stays NaN.
LowerCell(c) == IF c.na THEN c ELSE Str(StrLower(c.s))

\* best_score > 0.8
AtOrAboveThreshold(score) == FracLeq(Frac(8, 10), score)
AboveThreshold(score) == FracLt(Frac(8, 10), score)

\* The title cells of S by ascending title, a NaN cell last.
SortCells(S) ==
    LET named == SortStrings({c.s : c \in {x \in S : ~x.na}})
    IN  [i \in 1..Len(named) |-> Str(named[i])]
        \o (IF NaN \in S THEN <<NaN>> ELSE <<>>)

\* The sequence o, started k places later.
Rotate(o, k) == [i \in 1..Len(o) |-> o[((i + k - 1) % Len(o)) + 1]]

\* Orders kept for a set that is larger than the sample.
MaxOrders == 3

\* list(S): the elements of a set in an order the hash seeds decide.  Every
\* order is possible; for a set larger than the sample cap the model keeps
\* the first rotations of one order, which leave different elements out of
\* the sample.
Orders(S) ==
    IF Cardinality(S) <= SampleCap
    THEN {f \in [1..Cardinality(S) -> S] :
            \A i, j \in 1..Cardinality(S) : f[i] = f[j] => i = j}
    ELSE {Rotate(SortCells(S), k) : k \in 0..(MaxOrders - 1)}

Sample(order) == SubSeq(order, 1, IF Len(order) < SampleCap THEN Len(order) ELSE SampleCap)

\* The inner loop: the best candidate for hcc_title among the first n.
RECURSIVE BestMatch(_, _, _)
BestMatch(hcc_title, candidates, n) ==
    IF n = 0 THEN [best_match |-> <<>>, best_score |-> Frac(0, 1)]
    ELSE LET sofar == BestMatch(hcc_title, candidates, n - 1)
             score == ratio(hcc_title.s, candidates[n].s)
         IN  IF FracLt(sofar.best_score, score)
             THEN [best_match |-> <<candidates[n]>>, best_score |-> score]
             ELSE sofar

FracAdd(x, y) == Frac(x.num * y.den + y.num * x.den, x.den * y.den)

RECURSIVE FracSum(_, _)
FracSum(xs, n) == IF n = 0 THEN Frac(0, 1) ELSE FracAdd(FracSum(xs, n - 1), xs[n])

\* np.mean(similarity_scores) if similarity_scores else 0
Mean(xs) ==
    IF xs = <<>> THEN Frac(0, 1)
    ELSE Frac(FracSum(xs, Len(xs)).num, FracSum(xs, Len(xs)).den * Len(xs))

\* go.Figure(): nothing was computed.
EmptyFigure == [status |-> "ok", computed |-> FALSE]
RaisedFigure(e) == [status |-> e, computed |-> FALSE]

\* The title sets of job_overlap, lower-cased.
wcc_titles(wcc_jobs) ==
    {LowerCell(wcc_jobs.rows[i].JobTitle) : i \in 1..Len(wcc_jobs.rows)}
hcc_titles(hcc_df) ==
    {LowerCell(hcc_df.rows[i].Job_Title) : i \in 1..Len(hcc_df.rows)}

\* The set of figures job_overlap can produce: one per enumeration order of
\* the two sets of unmatched titles.
job_overlap(files, sel, hccdf) ==
    LET wcc_jobs == job_titles(files, sel)
        common_titles == wcc_titles(wcc_jobs) \cap hcc_titles(hccdf)
        wcc_only == wcc_titles(wcc_jobs) \ hcc_titles(hccdf)
        hcc_only == hcc_titles(hccdf) \ wcc_titles(wcc_jobs)
        Figure(hs, ws) ==
            LET best == [p \in 1..Len(hs) |->
                            [hcc_title |-> hs[p]] @@ BestMatch(hs[p], ws, Len(ws))]
                similar == SelectSeq(best, LAMBDA m : AboveThreshold(m.best_score))
                similarity_scores == [p \in 1..Len(similar) |-> similar[p].best_score]
            IN  [status |-> "ok", computed |-> TRUE,
                 common_titles |-> common_titles,
                 wcc_only |-> wcc_only,
                 hcc_only |-> hcc_only,
                 hcc_sample |-> hs,
                 wcc_sample |-> ws,
                 best |-> best,
                 similarity_scores |-> similarity_scores,
                 avg_similarity |-> Mean(similarity_scores),
                 values |-> <<Cardinality(common_titles), Cardinality(wcc_only),
                              Cardinality(hcc_only), Len(similarity_scores)>>]
    IN  IF ~(wcc_available(files) /\ hcc_available(files)) THEN {EmptyFigure}
        ELSE IF ~Ok(hccdf) THEN {RaisedFigure(hccdf.status)}
        ELSE IF IsEmpty(wcc_jobs) \/ IsEmpty(hccdf) THEN {EmptyFigure}
        ELSE IF StrAccessorRaises(wcc_jobs.rows, "JobTitle")
             THEN {RaisedFigure(AttributeError)}
        ELSE { IF hs # <<>> /\ \E q \in 1..Len(ws) : ws[q].na
               THEN RaisedFigure("TypeError")
               ELSE Figure(hs, ws) :
                 hs \in {Sample(o) : o \in Orders(hcc_only)},
                 ws \in {Sample(o) : o \in Orders(wcc_only)} }

(***************************************************************************)
(* The sidebar filters.  `filters' holds the values of the inputs, and     *)
(* `choices' the option lists last sent to the browser by the effects.     *)
(***************************************************************************)
InitialFilters ==
    [filter_group |-> Lit.All, filter_unit |-> Lit.All,
     filter_location |-> Lit.All, job_category_filter |-> "All",
     job_search |-> <<>>,
     filter_division |-> Lit.All, filter_manager |-> Lit.All,
     analysis_type |-> "top_positions"]

InitialChoices ==
    [status |-> "ok", filter_group |-> <<Lit.All>>,
     filter_unit |-> <<Lit.All>>, filter_location |-> <<Lit.All>>]

JobCategoryChoices ==
    <<"All", "Management", "Professional", "Technical", "Administrative",
      "Operational">>

\* data[data[column] == value]
HasColumn(df, column) == df.rows # <<>> /\ column \in DOMAIN df.rows[1]

WhereEq(df, column, value) ==
    IF ~Ok(df) THEN df
    ELSE IF ~IsEmpty(df) /\ ~HasColumn(df, column) THEN Raised("KeyError")
    ELSE [df EXCEPT !.rows = SelectSeq(df.rows, LAMBDA r : r[column] = value)]

\* sorted(df[column].dropna().unique().tolist())
SortedUnique(df, column) ==
    SortStrings({df.rows[i][column].s :
                   i \in {j \in 1..Len(df.rows) : ~df.rows[j][column].na}})

\* update_filter_choices(): the effect on the option lists.
update_filter_choices(data, sel, ch) ==
    IF ~Ok(data) THEN [ch EXCEPT !.status = data.status]
    ELSE IF IsEmpty(data) THEN ch
    ELSE [ch EXCEPT
            !.filter_group =
                (IF sel = COMPARE THEN <<Lit.All, Lit.All_WCC, Lit.All_HCC>>
                 ELSE <<Lit.All>>) \o SortedUnique(data, "GroupName"),
            !.filter_location =
                IF sel = WCC
                THEN <<Lit.All>> \o SortedUnique(data, "LocationName")
                ELSE @]

\* filtered_data() without its filters: the copy of merged_data() as it is.
filtered_data_unfiltered(data, sel, fl) == data

\* filtered_data(): the records of merged_data() that pass the filters.
filtered_data(data, sel, fl) ==
    IF ~Ok(data) \/ IsEmpty(data) THEN data
    ELSE
    LET by_group ==
            IF sel = COMPARE THEN
                IF fl.filter_group = Lit.All_WCC
                THEN WhereEq(data, "Council", Str(Lit.Wellington))
                ELSE IF fl.filter_group = Lit.All_HCC
                THEN WhereEq(data, "Council", Str(Lit.Hutt))
                ELSE IF fl.filter_group # Lit.All
                THEN WhereEq(data, "GroupName", Str(fl.filter_group))
                ELSE data
            ELSE IF fl.filter_group # Lit.All
                 THEN WhereEq(data, "GroupName", Str(fl.filter_group))
                 ELSE data
        by_unit ==
            IF fl.filter_unit # Lit.All
            THEN WhereEq(by_group, "UnitName", Str(fl.filter_unit))
            ELSE by_group
        by_location ==
            IF sel = WCC /\ fl.filter_location # Lit.All
            THEN WhereEq(by_unit, "LocationName", Str(fl.filter_location))
            ELSE by_unit
    IN  IF fl.job_category_filter # "All"
        THEN WhereEq(by_location, "JobCategory", fl.job_category_filter)
        ELSE by_location

\* update_unit_choices(): the records whose units are offered.
UnitFilterTarget(data, fl) ==
    IF fl.filter_group = Lit.All_WCC
    THEN WhereEq(data, "Council", Str(Lit.Wellington))
    ELSE IF fl.filter_group = Lit.All_HCC
    THEN WhereEq(data, "Council", Str(Lit.Hutt))
    ELSE IF fl.filter_group = Lit.All THEN data
    ELSE WhereEq(data, "GroupName", Str(fl.filter_group))

\* update_unit_choices() reaches its ui.update_select call.
UnitEffectCompletes(data, fl) ==
    Ok(data) /\ ~IsEmpty(data) /\ Ok(UnitFilterTarget(data, fl))

\* update_unit_choices(): the effect on the option lists ...
update_unit_choices(data, fl, ch) ==
    IF ~Ok(data) THEN [ch EXCEPT !.status = data.status]
    ELSE IF IsEmpty(data) THEN ch
    ELSE IF ~Ok(UnitFilterTarget(data, fl))
    THEN [ch EXCEPT !.status = UnitFilterTarget(data, fl).status]
    ELSE [ch EXCEPT !.filter_unit =
                <<Lit.All>> \o SortedUnique(UnitFilterTarget(data, fl), "UnitName")]

\* ... and on input.filter_unit(): selected="All".
UnitAfterEffect(data, fl) ==
    IF UnitEffectCompletes(data, fl) THEN [fl EXCEPT !.filter_unit = Lit.All]
    ELSE fl

(***************************************************************************)
(* mywcc-staff: the same filters, with the option lists taken from the     *)
(* dimension tables.                                                       *)
(***************************************************************************)
\* sorted(df[column].unique().tolist()): NaN among strings cannot be ordered.
SortedUniqueAll(df, column) ==
    IF (\E i \in 1..Len(df.rows) : df.rows[i][column].na)
       /\ (\E i \in 1..Len(df.rows) : ~df.rows[i][column].na)
    THEN <<"TypeError">>
    ELSE SortedUnique(df, column)

mywcc_update_initial_choices(files, ch) ==
    LET bg == ReadCsv(files.BusinessGroups)
        pl == ReadCsv(files.PayLocations)
    IN  IF ~Ok(bg) THEN [ch EXCEPT !.status = bg.status]
        ELSE IF SortedUniqueAll(bg, "GroupName") = <<"TypeError">>
        THEN [ch EXCEPT !.status = "TypeError"]
        ELSE IF ~Ok(pl)
        THEN [ch EXCEPT !.status = pl.status,
                        !.filter_group = <<Lit.All>> \o SortedUniqueAll(bg, "GroupName")]
        ELSE IF SortedUniqueAll(pl, "LocationName") = <<"TypeError">>
        THEN [ch EXCEPT !.status = "TypeError",
                        !.filter_group = <<Lit.All>> \o SortedUniqueAll(bg, "GroupName")]
        ELSE [ch EXCEPT
                !.filter_group = <<Lit.All>> \o SortedUniqueAll(bg, "GroupName"),
                !.filter_location = <<Lit.All>> \o SortedUniqueAll(pl, "LocationName")]

mywcc_filtered_data(data, fl) ==
    LET by_group ==
            IF fl.filter_group # Lit.All
            THEN WhereEq(data, "GroupName", Str(fl.filter_group)) ELSE data
        by_unit ==
            IF fl.filter_unit # Lit.All
            THEN WhereEq(by_group, "UnitName", Str(fl.filter_unit)) ELSE by_group
    IN  IF fl.filter_location # Lit.All
        THEN WhereEq(by_unit, "LocationName", Str(fl.filter_location))
        ELSE by_unit

\* The units offered by mywcc's update_unit_choices(): a frame of the rows
\* of BusinessUnits.csv, or the error the effect raises.
mywcc_unit_rows(files, fl) ==
    LET bu == ReadCsv(files.BusinessUnits)
        bg == ReadCsv(files.BusinessGroups)
    IN  IF fl.filter_group = Lit.All THEN bu
        ELSE IF ~Ok(bg) THEN bg
        ELSE IF WhereEq(bg, "GroupName", Str(fl.filter_group)).rows = <<>>
        THEN Raised("IndexError")                           \* .iloc[0]
        ELSE IF ~Ok(bu) THEN bu
        ELSE WhereEq(bu, "GroupID",
                     WhereEq(bg, "GroupName", Str(fl.filter_group)).rows[1].GroupID)

mywcc_unit_effect_completes(files, fl) ==
    /\ Ok(mywcc_unit_rows(files, fl))
    /\ SortedUniqueAll(mywcc_unit_rows(files, fl), "UnitName") # <<"TypeError">>

mywcc_update_unit_choices(files, fl, ch) ==
    IF ~Ok(mywcc_unit_rows(files, fl))
    THEN [ch EXCEPT !.status = mywcc_unit_rows(files, fl).status]
    ELSE IF ~mywcc_unit_effect_completes(files, fl)
    THEN [ch EXCEPT !.status = "TypeError"]
    ELSE [ch EXCEPT !.filter_unit =
            <<Lit.All>> \o SortedUniqueAll(mywcc_unit_rows(files, fl), "UnitName")]

mywcc_unit_after_effect(files, fl) ==
    IF mywcc_unit_effect_completes(files, fl)
    THEN [fl EXCEPT !.filter_unit = Lit.All] ELSE fl

(***************************************************************************)
(* myhcc-staff: filtered_data() over the prepared df.                      *)
(***************************************************************************)
myhcc_filtered_data(data, fl) ==
    LET by_group ==
            IF fl.filter_group # Lit.All
            THEN WhereEq(data, "Group", Str(fl.filter_group)) ELSE data
        by_division ==
            IF fl.filter_division # Lit.All
            THEN WhereEq(by_group, "Division", Str(fl.filter_division))
            ELSE by_group
    IN  IF fl.filter_manager # Lit.All
        THEN WhereEq(by_division, "Manager_Job_Title", Str(fl.filter_manager))
        ELSE by_division

(***************************************************************************)
(* Rendered outputs: `out' maps the id of an output to what it last        *)
(* rendered.                                                               *)
(***************************************************************************)
NotRenderedOut == [status |-> "not rendered"]
RaisedOut(e) == [status |-> e]
Text(v) == [status |-> "ok", value |-> v]

\* Series.nunique(): the distinct values, NaN left out.
NUnique(df, column) ==
    Cardinality({df.rows[i][column] :
                   i \in {j \in 1..Len(df.rows) : ~df.rows[j][column].na}})

\* f"{x:.1f}" of num/den >= 0: the tenths, rounded half to even.
Fixed1(num, den) ==
    LET q == (10 * num) \div den
        r == (10 * num) % den
    IN  [tenths |-> IF 2 * r > den \/ (2 * r = den /\ q % 2 = 1)
                    THEN q + 1 ELSE q]

\* data['StaffCount'].sum()
StaffSum(df) == Sum([i \in 1..Len(df.rows) |-> df.rows[i].StaffCount])

\* f"{n:,}" and str(n) are modelled by n itself, the literal "0" by 0.
total_staff_overview(data) ==
    IF ~Ok(data) THEN RaisedOut(data.status)
    ELSE IF IsEmpty(data) THEN Text(0)
    ELSE Text(StaffSum(data))

total_groups_overview(data) ==
    IF ~Ok(data) THEN RaisedOut(data.status)
    ELSE IF IsEmpty(data) THEN Text(0)
    ELSE Text(NUnique(data, "GroupName"))

total_positions_overview(data) ==
    IF ~Ok(data) THEN RaisedOut(data.status)
    ELSE IF IsEmpty(data) THEN Text(0)
    ELSE Text(NUnique(data, "JobTitle"))

\* The literal "0" of avg_staff_unit_overview differs from a rendered 0.0.
avg_staff_unit_overview(data) ==
    IF ~Ok(data) THEN RaisedOut(data.status)
    ELSE IF IsEmpty(data) THEN Text([literal |-> 0])
    ELSE LET unit_totals == GroupSums(data, "UnitName")
         IN  IF Len(unit_totals) = 0 THEN Text([literal |-> 0])
             ELSE Text(Fixed1(Sum([i \in 1..Len(unit_totals) |-> unit_totals[i][2]]),
                              Len(unit_totals)))

(***************************************************************************)
(* job_stats(): the Shannon diversity of the job titles.  Logarithms are   *)
(* kept symbolic: np.log(n) is -inf for n = 0, 0.0 for n = 1 and the       *)
(* positive number ln n for n >= 2.                                        *)
(***************************************************************************)
NegInf == [kind |-> "-inf"]
Ln(n) == IF n = 0 THEN NegInf ELSE IF n = 1 THEN Frac(0, 1)
         ELSE [kind |-> "ln", of |-> n]

\* x > 0 for a value of np.log(len(...))
Positive(x) == x.kind = "ln"

\* data[data['JobTitle'].str.contains(search, case=False, na=False)], for a
\* search text of letters (the pattern then matches as a substring).
JobSearch(data, search) ==
    IF search = <<>> THEN data
    ELSE IF StrAccessorRaises(data.rows, "JobTitle") THEN Raised(AttributeError)
    ELSE [data EXCEPT !.rows =
            SelectSeq(data.rows,
                      LAMBDA r : ~r.JobTitle.na
                                 /\ Contains(StrLower(r.JobTitle.s), StrLower(search)))]

\* job_counts / job_counts.sum()
job_probs(job_counts) ==
    LET total == Sum([i \in 1..Len(job_counts) |-> job_counts[i][2]])
    IN  [i \in 1..Len(job_counts) |-> TrueDivide(job_counts[i][2], total)]

\* -np.sum(p * np.log(p + 1e-10)): Series.sum() skips the NaN terms.
diversity_index(probs) ==
    [kind |-> "entropy", probs |-> SelectSeq(probs, IsNum)]

\* (diversity_index / max_diversity * 100), without the guard: the numpy
\* division yields nan or an infinity when max_diversity is 0.0.
diversity_pct_unguarded(index, max_diversity) ==
    [kind |-> "pct", index |-> index, max |-> max_diversity]

\* (diversity_index / max_diversity * 100) if max_diversity > 0 else 0
diversity_pct(index, max_diversity) ==
    IF Positive(max_diversity)
    THEN [kind |-> "pct", index |-> index, max |-> max_diversity]
    ELSE Frac(0, 1)

job_stats(data, fl) ==
    IF ~Ok(data) THEN RaisedOut(data.status)
    ELSE IF IsEmpty(data) THEN Text([no_data |-> TRUE])     \* "No data available"
    ELSE
    LET searched == JobSearch(data, fl.job_search)
    IN  IF ~Ok(searched) THEN RaisedOut(searched.status)
        ELSE
        LET total_jobs == NUnique(searched, "JobTitle")
            total_staff_jobs == StaffSum(searched)
            job_counts == GroupSums(searched, "JobTitle")
        IN  Text([total_jobs |-> total_jobs,
                  total_staff_jobs |-> total_staff_jobs,
                  avg_staff_per_job |->
                      IF total_jobs > 0 THEN Fixed1(total_staff_jobs, total_jobs)
                      ELSE Fixed1(0, 1),
                  diversity_pct |->
                      diversity_pct(diversity_index(job_probs(job_counts)),
                                    Ln(Len(job_counts)))])

(***************************************************************************)
(* Span of control: the number of direct reports per manager title.        *)
(***************************************************************************)
RECURSIVE SortInts(_)
SortInts(S) ==
    IF S = {} THEN <<>>
    ELSE LET m == CHOOSE m \in S : \A x \in S : m <= x
         IN  <<m>> \o SortInts(S \ {m})

\* Series.value_counts(dropna=False): every value, NaN too, with the number
\* of rows that hold it.
ValueCountsWithNaN(df, column) ==
    LET keys == SortedUnique(df, column)
        named == [k \in 1..Len(keys) |->
                    <<Str(keys[k]),
                      Cardinality({i \in 1..Len(df.rows) :
                                      df.rows[i][column] = Str(keys[k])})>>]
        blank == {i \in 1..Len(df.rows) : df.rows[i][column].na}
    IN  IF blank = {} THEN named ELSE named \o << <<NaN, Cardinality(blank)>> >>

\* Series.value_counts(): the values that are not NaN, with the number of
\* rows that hold each (listed here in the order of the values).
ValueCounts(df, column) ==
    LET keys == SortedUnique(df, column)
    IN  [k \in 1..Len(keys) |->
            <<Str(keys[k]),
              Cardinality({i \in 1..Len(df.rows) :
                              df.rows[i][column] = Str(keys[k])})>>]

\* counts.value_counts().sort_index(): for each count k that occurs, the
\* number of entries with that count, by ascending k.
CountsOfCounts(counts) ==
    LET ks == SortInts({counts[i][2] : i \in 1..Len(counts)})
    IN  [j \in 1..Len(ks) |->
            <<ks[j], Cardinality({i \in 1..Len(counts) : counts[i][2] = ks[j]})>>]

\* counts.mean(): nan when there is no entry.
MeanCount(counts) ==
    TrueDivide(Sum([i \in 1..Len(counts) |-> counts[i][2]]), Len(counts))

span_of_control(sel, hccdf) ==
    IF sel # HCC THEN Text([empty |-> TRUE])                 \* go.Figure()
    ELSE IF ~Ok(hccdf) THEN RaisedOut(hccdf.status)
    ELSE IF IsEmpty(hccdf) THEN Text([empty |-> TRUE])
    ELSE LET manager_counts == ValueCounts(hccdf, "Manager_Job_Title")
         IN  Text([manager_counts |-> manager_counts,
                   span_distribution |-> CountsOfCounts(manager_counts),
                   avg_span |-> MeanCount(manager_counts)])

\* myhcc-staff analysis_summary(): the manager_span branch computes the
\* statistics; what the other branches show is not modelled further.
analysis_summary(data, fl) ==
    IF ~Ok(data) THEN RaisedOut(data.status)
    ELSE IF fl.analysis_type # "manager_span"
    THEN Text([summary |-> fl.analysis_type])
    ELSE
    LET managed == [data EXCEPT !.rows =
                        SelectSeq(data.rows,
                                  LAMBDA r : r.Manager_Job_Title # Str(Lit.No_Manager))]
        manager_stats == ValueCounts(managed, "Manager_Job_Title")
        spans == {manager_stats[i][2] : i \in 1..Len(manager_stats)}
    IN  IF Len(manager_stats) > 0
        THEN Text([total_managers |-> Len(manager_stats),
                   mean |-> MeanCount(manager_stats),
                   max |-> CHOOSE m \in spans : \A x \in spans : x <= m,
                   min |-> CHOOSE m \in spans : \A x \in spans : m <= x])
        ELSE Text([summary |-> "No manager data available"])

(***************************************************************************)
(* The aligned comparisons of the Council Comparison tabs.                 *)
(***************************************************************************)
\* data[(data['Council'] == council) & (data['GroupName'] == group)]
CouncilGroupRows(data, council, group) ==
    WhereEq(WhereEq(data, "Council", Str(council)), "GroupName", Str(group))

\* group_size_comparison(): the rows of df_comp.
group_size_comparison(sel, data) ==
    IF sel # COMPARE THEN Text([empty |-> TRUE])             \* go.Figure()
    ELSE IF ~Ok(data) THEN RaisedOut(data.status)
    ELSE IF IsEmpty(data) THEN Text([empty |-> TRUE])
    ELSE
    LET wcc_groups == GroupSums(WhereEq(data, "Council", Str(Lit.Wellington)),
                                "GroupName")
        hcc_groups == GroupSums(WhereEq(data, "Council", Str(Lit.Hutt)),
                                "GroupName")
        items == GROUP_MAPPINGS
        shown == SelectSeq([i \in 1..Len(items) |-> i],
                           LAMBDA i : DictGetOr(hcc_groups, items[i][1], 0) > 0
                                      \/ DictGetOr(wcc_groups, items[i][2], 0) > 0)
        mapped ==
            [k \in 1..Len(shown) |->
                [Function |-> items[shown[k]][2],
                 Wellington |-> DictGetOr(wcc_groups, items[shown[k]][2], 0),
                 Hutt |-> DictGetOr(hcc_groups, items[shown[k]][1], 0)]]
        wcc_only ==
            SelectSeq(wcc_groups,
                      LAMBDA kv : kv[1] \notin {items[i][2] : i \in 1..Len(items)})
        unmapped ==
            [k \in 1..Len(wcc_only) |->
                [Function |-> wcc_only[k][1], Wellington |-> wcc_only[k][2],
                 Hutt |-> 0]]
    IN  IF mapped \o unmapped = <<>>
        THEN RaisedOut("KeyError")                 \* df_comp['Function']
        ELSE Text([rows |-> mapped \o unmapped])

\* functional_comparison(): the rows of df_func.
functional_comparison(files, data) ==
    IF ~(wcc_available(files) /\ hcc_available(files))
    THEN Text([empty |-> TRUE])
    ELSE IF ~Ok(data) THEN RaisedOut(data.status)
    ELSE IF IsEmpty(data) THEN Text([empty |-> TRUE])
    ELSE IF ~HasColumn(data, "Council") THEN RaisedOut("KeyError")
    ELSE
    LET items == GROUP_MAPPINGS
        hcc_stats(i) == CouncilGroupRows(data, Lit.Hutt, items[i][1])
        wcc_stats(i) == CouncilGroupRows(data, Lit.Wellington, items[i][2])
        shown == SelectSeq([i \in 1..Len(items) |-> i],
                           LAMBDA i : /\ items[i][2] # Lit.No_Direct_Equivalent
                                      /\ \/ StaffSum(hcc_stats(i)) > 0
                                         \/ StaffSum(wcc_stats(i)) > 0)
        rows == Concat([k \in 1..Len(shown) |->
                    << [Function |-> items[shown[k]][2],
                        Metric |-> "Staff Count",
                        Wellington |-> StaffSum(wcc_stats(shown[k])),
                        Hutt |-> StaffSum(hcc_stats(shown[k]))],
                       [Function |-> items[shown[k]][2],
                        Metric |-> "Units/Divisions",
                        Wellington |-> NUnique(wcc_stats(shown[k]), "UnitName"),
                        Hutt |-> NUnique(hcc_stats(shown[k]), "UnitName")] >>])
    IN  IF rows = <<>> THEN Text([empty |-> TRUE]) ELSE Text([rows |-> rows])

(***************************************************************************)
(* Input tables.  Dimension rows exist for id 1 only, so that id 2 in a    *)
(* fact row is a failed lookup; the ...Dup rows repeat an id.              *)
(***************************************************************************)
FactRowInputs ==
    { [UnitID |-> Id(u), TitleID |-> Id(t), LocationID |-> Id(lc[1]),
       StaffCount |-> lc[2]] :
        u \in {1, 2}, t \in {1, 2}, lc \in {<<1, 2>>, <<2, 1>>} }

StaffAssignmentsInputs ==
    {Absent} \cup {File(r) : r \in BoundedSeqs(FactRowInputs, MaxFact)}
BusinessUnitsInputs ==
    LET Unit1 == [UnitID |-> Id(1), UnitName |-> Str(Lit.Parks), GroupID |-> Id(1)]
        Unit1Dup == [UnitID |-> Id(1), UnitName |-> Str(Lit.Roads), GroupID |-> Id(2)]
    IN  {Absent, File(<<>>), File(<<Unit1>>), File(<<Unit1, Unit1Dup>>)}
BusinessGroupsInputs ==
    LET Group1 == [GroupID |-> Id(1), GroupName |-> Str(Lit.Customer_Community)]
        Group1Dup == [GroupID |-> Id(1), GroupName |-> Str(Lit.Strategy_Finance)]
    IN  {Absent, File(<<Group1>>), File(<<Group1, Group1Dup>>)}
JobTitlesInputs ==
    LET Title1 == [TitleID |-> Id(1), JobTitle |-> Str(Lit.Manager)]
        Title1Dup == [TitleID |-> Id(1), JobTitle |-> Str(Lit.Policy_Analyst)]
        Title2Blank == [TitleID |-> Id(2), JobTitle |-> NaN]
    IN  {Absent, File(<<Title1>>), File(<<Title1, Title1Dup>>),
         File(<<Title1, Title2Blank>>)}
PayLocationsInputs ==
    LET Location1 == [LocationID |-> Id(1), LocationName |-> Str(Lit.Civic_Centre)]
    IN  {Absent, File(<<>>), File(<<Location1>>)}

HccGroupInputs ==
    {Str(Lit.Strategy_Engagement), Str(Lit.Strategy_Engagement \o <<" ">>),
     Str(<<" ">> \o Lit.Strategy_Engagement), Str(Lit.Parks \o <<"\t">>),
     Str(<<" ">>), NaN}

HccRowInputs ==
    { [Group |-> g, Division |-> Str(Lit.City_Growth), Job_Title |-> tm[1],
       Manager_Job_Title |-> tm[2]] :
        g \in HccGroupInputs,
        tm \in {<<Str(Lit.Manager), NaN>>, <<Str(Lit.Policy_Analyst), Str(Lit.Manager)>>,
                <<NaN, Str(Lit.Manager)>>} }

HccFileInputs ==
    {Absent} \cup {File(r) : r \in BoundedSeqs(HccRowInputs, MaxHccRows)}

Files(sa, bu, bg, jt, pl, h) ==
    [StaffAssignments |-> sa, BusinessUnits |-> bu, BusinessGroups |-> bg,
     JobTitles |-> jt, PayLocations |-> pl, hccpositioninfo |-> h]

\* The star-schema inputs vary; the flat file is missing or one fixed row.
StarFileInputs ==
    { Files(sa, bu, bg, jt, pl, h) :
        sa \in StaffAssignmentsInputs, bu \in BusinessUnitsInputs,
        bg \in BusinessGroupsInputs, jt \in JobTitlesInputs,
        pl \in PayLocationsInputs,
        h \in {Absent,
               File(<<[Group |-> Str(Lit.Strategy_Engagement),
                       Division |-> Str(Lit.City_Growth),
                       Job_Title |-> Str(Lit.Manager),
                       Manager_Job_Title |-> NaN]>>)} }

\* The flat file varies; the star-schema files are all missing or complete
\* (one fact row whose lookups all succeed).
FlatFileInputs ==
    { Files(w[1], w[2], w[3], w[4], w[5], h) :
        w \in {<<Absent, Absent, Absent, Absent, Absent>>,
               <<File(<<[UnitID |-> Id(1), TitleID |-> Id(1),
                         LocationID |-> Id(1), StaffCount |-> 2]>>),
                 File(<<[UnitID |-> Id(1), UnitName |-> Str(Lit.Parks),
                         GroupID |-> Id(1)]>>),
                 File(<<[GroupID |-> Id(1),
                         GroupName |-> Str(Lit.Customer_Community)]>>),
                 File(<<[TitleID |-> Id(1), JobTitle |-> Str(Lit.Manager)]>>),
                 File(<<[LocationID |-> Id(1),
                         LocationName |-> Str(Lit.Civic_Centre)]>>)>>},
        h \in HccFileInputs }

\* Inputs of the Council Comparison tab: four WCC groups (two of them the
\* target of a mapping), one unit per group, fact rows for the units 1..5
\* (unit 5 is in no table), and flat rows of mapped and unmapped HCC groups.
ReportFactRowInputs ==
    { [UnitID |-> Id(u), TitleID |-> Id(1), LocationID |-> Id(1),
       StaffCount |-> c] : u \in 1..5, c \in {1, 3} }

ReportGroupNames ==
    <<Lit.Strategy_Finance, Lit.Customer_Community, Lit.Parks, Lit.Roads>>

ReportHccGroupInputs ==
    {Str(Lit.Strategy_Engagement), Str(Lit.Neighbourhoods_Communities_Sp),
     Str(Lit.Economy_Development), Str(Lit.Parks)}

ReportFileInputs ==
    { Files(File(sa),
            File([u \in 1..4 |->
                    [UnitID |-> Id(u), UnitName |-> Str(Lit.City_Growth),
                     GroupID |-> Id(u)]]),
            bg,
            File(<<[TitleID |-> Id(1), JobTitle |-> Str(Lit.Manager)]>>),
            File(<<[LocationID |-> Id(1),
                    LocationName |-> Str(Lit.Civic_Centre)]>>),
            File([i \in 1..Len(h) |->
                    [Group |-> h[i], Division |-> Str(Lit.City_Growth),
                     Job_Title |-> Str(Lit.Manager),
                     Manager_Job_Title |-> NaN]])) :
        sa \in BoundedSeqs(ReportFactRowInputs, MaxFact),
        bg \in {Absent,
                File([g \in 1..4 |->
                        [GroupID |-> Id(g),
                         GroupName |-> Str(ReportGroupNames[g])]])},
        h \in BoundedSeqs(ReportHccGroupInputs, MaxHccRows) }

\* Inputs of the job title comparison: titles that agree up to letter case,
\* up to a trailing blank, nearly ('Planner' and its grades 'Planner A' and
\* 'Planner B', ratio 14/16 each) and at the threshold itself ('Lead' and
\* 'Leader', ratio 8/10); a JobTitles row can have a blank title.
OverlapHccTitleInputs ==
    { <<"P","l","a","n","n","e","r">>, <<"P","l","a","n","n","e","r"," ">>,
      <<"L","e","a","d">> }

OverlapWccTitleInputs ==
    { Str(<<"p","l","a","n","n","e","r">>),
      Str(<<"P","l","a","n","n","e","r"," ","A">>),
      Str(<<"P","l","a","n","n","e","r"," ","B">>),
      Str(<<"L","e","a","d","e","r">>), NaN }

OverlapFileInputs ==
    { Files(File(<<[UnitID |-> Id(1), TitleID |-> Id(1),
                    LocationID |-> Id(1), StaffCount |-> 2]>>),
            File(<<[UnitID |-> Id(1), UnitName |-> Str(Lit.Parks),
                    GroupID |-> Id(1)]>>),
            File(<<[GroupID |-> Id(1),
                    GroupName |-> Str(Lit.Customer_Community)]>>),
            File([i \in 1..Len(jt) |-> [TitleID |-> Id(i), JobTitle |-> jt[i]]]),
            File(<<[LocationID |-> Id(1),
                    LocationName |-> Str(Lit.Civic_Centre)]>>),
            File([i \in 1..Len(h) |->
                    [Group |-> Str(Lit.Strategy_Engagement),
                     Division |-> Str(Lit.City_Growth),
                     Job_Title |-> Str(h[i]),
                     Manager_Job_Title |-> NaN]])) :
        jt \in BoundedSeqs(OverlapWccTitleInputs, MaxTitleRows),
        h \in BoundedSeqs(OverlapHccTitleInputs, MaxHccRows) }

\* Inputs of the filters: two WCC groups with a unit each, titles of two job
\* categories, fact rows one of which carries no staff, and flat rows of two
\* HCC groups.
FilterFactRowInputs ==
    { [UnitID |-> Id(1), TitleID |-> Id(1), LocationID |-> Id(1), StaffCount |-> 2],
      [UnitID |-> Id(2), TitleID |-> Id(2), LocationID |-> Id(1), StaffCount |-> 3],
      [UnitID |-> Id(1), TitleID |-> Id(2), LocationID |-> Id(2), StaffCount |-> 0] }

FilterHccRow(g, t) ==
    [Group |-> Str(g), Division |-> Str(Lit.City_Growth),
     Job_Title |-> Str(t), Manager_Job_Title |-> NaN]

FilterHccInputs ==
    { Absent,
      File(<<FilterHccRow(Lit.Parks, Lit.Manager)>>),
      File(<<FilterHccRow(Lit.Strategy_Engagement, Lit.Manager),
             FilterHccRow(Lit.Parks, Lit.Policy_Analyst)>>) }

FilterFileInputs ==
    { Files(sa,
            File(<<[UnitID |-> Id(1), UnitName |-> Str(Lit.Parks),
                    GroupID |-> Id(1)],
                   [UnitID |-> Id(2), UnitName |-> Str(Lit.Roads),
                    GroupID |-> Id(2)]>>),
            File(<<[GroupID |-> Id(1), GroupName |-> Str(Lit.Customer_Community)],
                   [GroupID |-> Id(2), GroupName |-> Str(Lit.Strategy_Finance)]>>),
            File(<<[TitleID |-> Id(1), JobTitle |-> Str(Lit.Manager)],
                   [TitleID |-> Id(2), JobTitle |-> Str(Lit.Policy_Analyst)]>>),
            File(<<[LocationID |-> Id(1),
                    LocationName |-> Str(Lit.Civic_Centre)]>>),
            h) :
        sa \in {File(r) : r \in BoundedSeqs(FilterFactRowInputs, MaxFact)},
        h \in FilterHccInputs }

\* Texts typed into the job search box: none, part of a title in another
\* letter case, and a text no title contains.
JobSearchInputs ==
    { <<>>, <<"m","a","n","a","g">>, <<"z","z">> }

\* The job categories the user picks: all, one that titles of the tables
\* fall in, and one that none falls in.
JobCategoryInputs == {"All", "Management", "Technical"}

\* Inputs of the span of control: positions of two groups that report to
\* one of two manager titles (one of them also written with a trailing
\* blank) or to nobody.
SpanRowInputs ==
    { [Group |-> Str(g), Division |-> Str(Lit.City_Growth),
       Job_Title |-> Str(Lit.Policy_Analyst), Manager_Job_Title |-> m] :
        g \in {Lit.Strategy_Engagement, Lit.Parks},
        m \in {NaN, Str(Lit.Manager), Str(Lit.Manager \o <<" ">>),
               Str(Lit.Policy_Analyst)} }

\* The star-schema files are all missing, or complete with one fact row.
SpanFileInputs ==
    { Files(w[1], w[2], w[3], w[4], w[5], File(r)) :
        w \in {<<Absent, Absent, Absent, Absent, Absent>>,
               <<File(<<[UnitID |-> Id(1), TitleID |-> Id(1),
                         LocationID |-> Id(1), StaffCount |-> 2]>>),
                 File(<<[UnitID |-> Id(1), UnitName |-> Str(Lit.Parks),
                         GroupID |-> Id(1)]>>),
                 File(<<[GroupID |-> Id(1),
                         GroupName |-> Str(Lit.Customer_Community)]>>),
                 File(<<[TitleID |-> Id(1), JobTitle |-> Str(Lit.Manager)]>>),
                 File(<<[LocationID |-> Id(1),
                         LocationName |-> Str(Lit.Civic_Centre)]>>)>>},
        r \in BoundedSeqs(SpanRowInputs, MaxHccRows) }

\* Inputs of the aligned comparisons: three WCC groups (two of them the
\* target of a mapping) with a unit each, a fourth unit whose group is in no
\* table, fact rows for the units 1..5 (unit 5 is in no table) and one with
\* a title that is in no table, and flat rows of mapped and unmapped groups.
CompareFactRowInputs ==
    { [UnitID |-> Id(ut[1]), TitleID |-> Id(ut[2]), LocationID |-> Id(1),
       StaffCount |-> ut[3]] :
        ut \in {<<1, 1, 1>>, <<2, 1, 3>>, <<3, 1, 1>>, <<4, 1, 1>>,
                <<5, 1, 1>>, <<1, 2, 1>>} }

CompareGroupNames == <<Lit.Strategy_Finance, Lit.Customer_Community, Lit.Parks>>

CompareHccGroupInputs ==
    {Lit.Strategy_Engagement, Lit.Neighbourhoods_Communities, Lit.Parks}

CompareFileInputs ==
    { Files(File(sa),
            File([u \in 1..4 |->
                    [UnitID |-> Id(u), UnitName |-> Str(Lit.City_Growth),
                     GroupID |-> Id(u)]]),
            File([g \in 1..3 |->
                    [GroupID |-> IF g = 3 /\ blank THEN NaNId ELSE Id(g),
                     GroupName |-> Str(CompareGroupNames[g])]]),
            File(<<[TitleID |-> Id(1), JobTitle |-> Str(Lit.Manager)]>>),
            File(<<[LocationID |-> Id(1),
                    LocationName |-> Str(Lit.Civic_Centre)]>>),
            File([i \in 1..Len(h) |->
                    [Group |-> Str(h[i]), Division |-> Str(Lit.City_Growth),
                     Job_Title |-> Str(Lit.Manager),
                     Manager_Job_Title |-> NaN]])) :
        sa \in BoundedSeqs(CompareFactRowInputs, MaxFact),
        h \in BoundedSeqs(CompareHccGroupInputs, MaxHccRows),
        blank \in BOOLEAN }

\* Inputs of the sampled title comparison: JobTitles.csv holds up to
\* MaxTitleRows of the titles 'Planner', 'Planning' and 'Lead'; the flat file
\* holds 'Planners' (ratio 14/15 against 'planner') and one or two more
\* two-letter titles than the sample takes.
FillerTitle(k) ==
    <<LowerLetters[((k - 1) \div 10) + 1], LowerLetters[((k - 1) % 10) + 1]>>

SampleWccTitleInputs ==
    { <<"P","l","a","n","n","e","r">>, <<"P","l","a","n","n","i","n","g">>,
      <<"L","e","a","d">> }

SampleFileInputs ==
    { Files(File(<<[UnitID |-> Id(1), TitleID |-> Id(1),
                    LocationID |-> Id(1), StaffCount |-> 2]>>),
            File(<<[UnitID |-> Id(1), UnitName |-> Str(Lit.Parks),
                    GroupID |-> Id(1)]>>),
            File(<<[GroupID |-> Id(1),
                    GroupName |-> Str(Lit.Customer_Community)]>>),
            File([i \in 1..Len(jt) |-> [TitleID |-> Id(i), JobTitle |-> Str(jt[i])]]),
            File(<<[LocationID |-> Id(1),
                    LocationName |-> Str(Lit.Civic_Centre)]>>),
            File([i \in 1..(n + 1) |->
                    [Group |-> Str(Lit.Strategy_Engagement),
                     Division |-> Str(Lit.City_Growth),
                     Job_Title |->
                        IF i = 1 THEN Str(<<"P","l","a","n","n","e","r","s">>)
                        ELSE Str(FillerTitle(i - 1)),
                     Manager_Job_Title |-> NaN]])) :
        jt \in BoundedSeqs(SampleWccTitleInputs, MaxTitleRows) \ {<<>>},
        n \in {SampleCap, SampleCap + 1} }

(***************************************************************************)
(* The sessions.  The multi-council state is the one after the first       *)
(* reactive flush: update_council_choices has selected the first view on   *)
(* offer and the reactive calcs hold their values for it.                  *)
(***************************************************************************)
InitialCouncil(files) ==
    IF council_choices(files) = <<>> THEN WCC ELSE council_choices(files)[1]

OfferedCouncils(files) ==
    IF council_choices(files) = <<>> THEN {WCC, HCC, COMPARE}
    ELSE {council_choices(files)[i] : i \in 1..Len(council_choices(files))}

\* The outputs, all waiting to be rendered.
NoOutputs ==
    [total_staff_overview |-> NotRenderedOut,
     total_groups_overview |-> NotRenderedOut,
     total_positions_overview |-> NotRenderedOut,
     avg_staff_unit_overview |-> NotRenderedOut,
     job_stats |-> NotRenderedOut,
     span_of_control |-> NotRenderedOut,
     analysis_summary |-> NotRenderedOut,
     group_size_comparison |-> NotRenderedOut,
     functional_comparison |-> NotRenderedOut]

OutputNames == DOMAIN NoOutputs

\* The outputs that read filtered_data().
FilterOutputs ==
    {"total_staff_overview", "total_groups_overview",
     "total_positions_overview", "avg_staff_unit_overview", "job_stats",
     "analysis_summary"}

Invalidate(names) ==
    [n \in OutputNames |-> IF n \in names THEN NotRenderedOut ELSE out[n]]

Range(s) == {s[i] : i \in 1..Len(s)}

\* The effects of one reactive flush of the multi-council app, in the order
\* of their definition, on the option lists and on the unit filter.
EffectsChoices(data, sel, fl, ch) ==
    LET started == [ch EXCEPT !.status = "ok"]
        after_filter == update_filter_choices(data, sel, started)
    IN  IF after_filter.status # "ok" THEN after_filter
        ELSE update_unit_choices(data, fl, after_filter)

EffectsFilters(data, fl) == UnitAfterEffect(data, fl)

MyWccEffectsChoices(files, fl, ch) ==
    LET started == [ch EXCEPT !.status = "ok"]
        after_initial == mywcc_update_initial_choices(files, started)
    IN  IF after_initial.status # "ok" THEN after_initial
        ELSE mywcc_update_unit_choices(files, fl, after_initial)

\* The filter state after the first flush.
FiltersInit ==
    /\ filters = InitialFilters
    /\ choices = IF app = "multi"
                 THEN EffectsChoices(merged, council_select, InitialFilters,
                                     InitialChoices)
                 ELSE IF app = "mywcc"
                 THEN MyWccEffectsChoices(csv, InitialFilters, InitialChoices)
                 ELSE InitialChoices
    /\ filtered = IF app = "multi"
                  THEN filtered_data(merged, council_select, InitialFilters)
                  ELSE NotComputed
    /\ out = NoOutputs

\* The reactive calcs recomputed for the view sel.
Recompute(sel) ==
    /\ staff' \in staff_assignments(csv, sel)
    /\ hcc' = hcc_data(csv, sel)
    /\ merged' = merged_data(csv, sel, staff', hcc')

AppInit(fileInputs, apps) ==
    /\ app \in apps
    /\ csv \in fileInputs
    /\ IF app = "multi"
       THEN /\ council_select = InitialCouncil(csv)
            /\ staff \in staff_assignments(csv, council_select)
            /\ hcc = hcc_data(csv, council_select)
            /\ merged = merged_data(csv, council_select, staff, hcc)
       ELSE /\ council_select = WCC
            /\ staff = EmptyFrame
            /\ hcc = EmptyFrame
            /\ merged = NotComputed
    /\ mapping = NotRendered
    /\ alignment = NotRendered
    /\ download = NotRendered
    /\ overlap = NotRendered
    /\ FiltersInit

\* multi-council: the user picks another view; every calc is recomputed.
SelectCouncil(c) ==
    /\ app = "multi"
    /\ c \in OfferedCouncils(csv)
    /\ c # council_select
    /\ council_select' = c
    /\ Recompute(c)
    /\ mapping' = NotRendered
    /\ overlap' = NotRendered
    /\ choices' = EffectsChoices(merged', c, filters, choices)
    /\ filters' = EffectsFilters(merged', filters)
    /\ filtered' = filtered_data(merged', c, filters')
    /\ out' = NoOutputs
    /\ UNCHANGED <<app, csv, alignment, download, metricsVars, titleVars>>

\* mywcc-staff: first evaluation of merged_data().
MyWccMergedData ==
    /\ app = "mywcc"
    /\ merged = NotComputed
    /\ merged' = mywcc_merged_data(csv)
    /\ filtered' = mywcc_filtered_data(merged', filters)
    /\ UNCHANGED <<app, csv, council_select, staff, hcc, reportVars,
                   filters, choices, out, metricsVars, titleVars>>

\* myhcc-staff: the module is imported and df prepared.
MyHccPrepare ==
    /\ app = "myhcc"
    /\ merged = NotComputed
    /\ merged' = myhcc_prepare(csv)
    /\ filtered' = myhcc_filtered_data(merged', filters)
    /\ UNCHANGED <<app, csv, council_select, staff, hcc, reportVars,
                   filters, choices, out, metricsVars, titleVars>>

\* The outputs of the Council Comparison tab are rendered (again, after a
\* change of view invalidated them).
DepartmentMapping ==
    /\ app = "multi"
    /\ mapping = NotRendered
    /\ mapping' = department_mapping(csv, council_select, staff, hcc)
    /\ UNCHANGED <<app, csv, council_select, staff, hcc, merged, alignment,
                   download, overlap, filterVars, metricsVars, titleVars>>

StructuralAlignment ==
    /\ app = "multi"
    /\ alignment = NotRendered
    /\ alignment' = structural_alignment(csv)
    /\ UNCHANGED <<app, csv, council_select, staff, hcc, merged, mapping,
                   download, overlap, filterVars, metricsVars, titleVars>>

JobOverlap ==
    /\ app = "multi"
    /\ overlap = NotRendered
    /\ overlap' \in job_overlap(csv, council_select, hcc)
    /\ UNCHANGED <<app, csv, council_select, staff, hcc, merged, mapping,
                   alignment, download, filterVars, metricsVars, titleVars>>

\* The user clicks 'Download Mapping Report'.
DownloadMapping ==
    /\ app = "multi"
    /\ download = NotRendered
    /\ download' = download_mapping
    /\ UNCHANGED <<app, csv, council_select, staff, hcc, merged, mapping,
                   alignment, overlap, filterVars, metricsVars, titleVars>>

(***************************************************************************)
(* The user changes a filter; the effects that read the input run in the   *)
(* same flush, and the outputs that read filtered_data() are invalidated.  *)
(***************************************************************************)
FilteredNow(fl) ==
    IF app = "multi" THEN filtered_data(merged, council_select, fl)
    ELSE mywcc_filtered_data(merged, fl)

SelectGroup(g) ==
    /\ app \in {"multi", "mywcc"}
    /\ merged # NotComputed
    /\ g \in Range(choices.filter_group)
    /\ g # filters.filter_group
    /\ LET picked == [filters EXCEPT !.filter_group = g]
           started == [choices EXCEPT !.status = "ok"]
       IN  IF app = "multi"
           THEN /\ choices' = update_unit_choices(merged, picked, started)
                /\ filters' = UnitAfterEffect(merged, picked)
           ELSE /\ choices' = mywcc_update_unit_choices(csv, picked, started)
                /\ filters' = mywcc_unit_after_effect(csv, picked)
    /\ filtered' = FilteredNow(filters')
    /\ out' = Invalidate(FilterOutputs)
    /\ UNCHANGED <<app, csv, council_select, staff, hcc, merged, reportVars,
                   metricsVars, titleVars>>

SelectUnit(u) ==
    /\ app \in {"multi", "mywcc"}
    /\ merged # NotComputed
    /\ u \in Range(choices.filter_unit)
    /\ u # filters.filter_unit
    /\ filters' = [filters EXCEPT !.filter_unit = u]
    /\ filtered' = FilteredNow(filters')
    /\ out' = Invalidate(FilterOutputs)
    /\ UNCHANGED <<app, csv, council_select, staff, hcc, merged, reportVars,
                   choices, metricsVars, titleVars>>

\* The location filter is shown in the Wellington view only.
SelectLocation(l) ==
    /\ \/ app = "multi" /\ council_select = WCC
       \/ app = "mywcc"
    /\ merged # NotComputed
    /\ l \in Range(choices.filter_location)
    /\ l # filters.filter_location
    /\ filters' = [filters EXCEPT !.filter_location = l]
    /\ filtered' = FilteredNow(filters')
    /\ out' = Invalidate(FilterOutputs)
    /\ UNCHANGED <<app, csv, council_select, staff, hcc, merged, reportVars,
                   choices, metricsVars, titleVars>>

SelectJobCategory(k) ==
    /\ app = "multi"
    /\ k \in Range(JobCategoryChoices) \cap JobCategoryInputs
    /\ k # filters.job_category_filter
    /\ filters' = [filters EXCEPT !.job_category_filter = k]
    /\ filtered' = FilteredNow(filters')
    /\ out' = Invalidate(FilterOutputs)
    /\ UNCHANGED <<app, csv, council_select, staff, hcc, merged, reportVars,
                   choices, metricsVars, titleVars>>

TypeJobSearch(text) ==
    /\ app = "multi"
    /\ text \in JobSearchInputs
    /\ text # filters.job_search
    /\ filters' = [filters EXCEPT !.job_search = text]
    /\ out' = Invalidate({"job_stats"})
    /\ UNCHANGED <<app, csv, council_select, staff, hcc, merged, reportVars,
                   choices, filtered, metricsVars, titleVars>>

\* An output that waits to be rendered is rendered; the outputs of one tab
\* are rendered in the order of their definition.
Render(name, value, earlier) ==
    /\ out[name].status = "not rendered"
    /\ \A n \in earlier : out[n].status # "not rendered"
    /\ out' = [out EXCEPT ![name] = value]
    /\ UNCHANGED <<app, csv, council_select, staff, hcc, merged, reportVars,
                   filters, choices, filtered, metricsVars, titleVars>>

TotalStaffOverview ==
    app = "multi" /\
    Render("total_staff_overview", total_staff_overview(filtered), {})
TotalGroupsOverview ==
    app = "multi" /\
    Render("total_groups_overview", total_groups_overview(filtered),
           {"total_staff_overview"})
TotalPositionsOverview ==
    app = "multi" /\
    Render("total_positions_overview", total_positions_overview(filtered),
           {"total_groups_overview"})
AvgStaffUnitOverview ==
    app = "multi" /\
    Render("avg_staff_unit_overview", avg_staff_unit_overview(filtered),
           {"total_positions_overview"})
JobStats ==
    app = "multi" /\ Render("job_stats", job_stats(filtered, filters), {})

SpanOfControl ==
    app = "multi" /\
    Render("span_of_control", span_of_control(council_select, hcc), {})

GroupSizeComparison ==
    app = "multi" /\
    Render("group_size_comparison",
           group_size_comparison(council_select, merged), {})

FunctionalComparison ==
    app = "multi" /\
    Render("functional_comparison", functional_comparison(csv, merged), {})

(***************************************************************************)
(* myhcc-staff: the filters offer the values of the prepared df.           *)
(***************************************************************************)
MyHccSelect(field, column, v) ==
    /\ app = "myhcc"
    /\ Ok(merged)
    /\ v \in {Lit.All} \cup {merged.rows[i][column].s : i \in 1..Len(merged.rows)}
    /\ v # filters[field]
    /\ filters' = [filters EXCEPT ![field] = v]
    /\ filtered' = myhcc_filtered_data(merged, filters')
    /\ out' = Invalidate(FilterOutputs)
    /\ UNCHANGED <<app, csv, council_select, staff, hcc, merged, reportVars,
                   choices, metricsVars, titleVars>>

MyHccSelectGroup(g) == MyHccSelect("filter_group", "Group", g)
MyHccSelectManager(m) == MyHccSelect("filter_manager", "Manager_Job_Title", m)

SelectAnalysisType(t) ==
    /\ app = "myhcc"
    /\ t \in {"top_positions", "manager_span", "group_division"}
    /\ t # filters.analysis_type
    /\ filters' = [filters EXCEPT !.analysis_type = t]
    /\ out' = Invalidate({"analysis_summary"})
    /\ UNCHANGED <<app, csv, council_select, staff, hcc, merged, reportVars,
                   choices, filtered, metricsVars, titleVars>>

AnalysisSummary ==
    /\ app = "myhcc"
    /\ merged # NotComputed
    /\ Render("analysis_summary", analysis_summary(filtered, filters), {})

(***************************************************************************)
(* Specifications: one per component; the variables of the other           *)
(* components rest at fixed values.                                        *)
(***************************************************************************)
MetricsIdle == values = <<>> /\ gini = Unset /\ lorenz = Unset
TitlesIdle == title_cell = NaN /\ category = NotRun /\ level = NotRun
AppIdle ==
    /\ app = "none"
    /\ csv = Files(Absent, Absent, Absent, Absent, Absent, Absent)
    /\ council_select = WCC
    /\ staff = EmptyFrame /\ hcc = EmptyFrame /\ merged = NotComputed
    /\ mapping = NotRendered /\ alignment = NotRendered
    /\ download = NotRendered /\ overlap = NotRendered
    /\ filters = InitialFilters /\ choices = InitialChoices
    /\ filtered = NotComputed /\ out = NoOutputs

MetricsSpecInit == MetricsInit /\ TitlesIdle /\ AppIdle
SpecMetrics == MetricsSpecInit /\ [][MetricsNext]_vars

TitlesSpecInit == TitlesInit /\ MetricsIdle /\ AppIdle
SpecTitles == TitlesSpecInit /\ [][TitlesNext]_vars

StarInit == AppInit(StarFileInputs, {"multi", "mywcc"}) /\ MetricsIdle /\ TitlesIdle
StarNext == (\E c \in {WCC, HCC, COMPARE} : SelectCouncil(c)) \/ MyWccMergedData
SpecStar == StarInit /\ [][StarNext]_vars

FlatInit == AppInit(FlatFileInputs, {"multi", "myhcc"}) /\ MetricsIdle /\ TitlesIdle
FlatNext == (\E c \in {WCC, HCC, COMPARE} : SelectCouncil(c)) \/ MyHccPrepare
SpecFlat == FlatInit /\ [][FlatNext]_vars

ReportInit == AppInit(ReportFileInputs, {"multi"}) /\ MetricsIdle /\ TitlesIdle
ReportNext ==
    \/ \E c \in {WCC, HCC, COMPARE} : SelectCouncil(c)
    \/ DepartmentMapping
    \/ StructuralAlignment
    \/ DownloadMapping
SpecReport == ReportInit /\ [][ReportNext]_vars

OverlapInit == AppInit(OverlapFileInputs, {"multi"}) /\ MetricsIdle /\ TitlesIdle
OverlapNext == (\E c \in {WCC, HCC, COMPARE} : SelectCouncil(c)) \/ JobOverlap
SpecOverlap == OverlapInit /\ [][OverlapNext]_vars

FiltersSpecInit ==
    AppInit(FilterFileInputs, {"multi", "mywcc"}) /\ MetricsIdle /\ TitlesIdle
FiltersNext ==
    \/ \E c \in {WCC, HCC, COMPARE} : SelectCouncil(c)
    \/ MyWccMergedData
    \/ \E g \in Range(choices.filter_group) : SelectGroup(g)
    \/ \E u \in Range(choices.filter_unit) : SelectUnit(u)
    \/ \E l \in Range(choices.filter_location) : SelectLocation(l)
    \/ \E k \in JobCategoryInputs : SelectJobCategory(k)
    \/ TotalStaffOverview
    \/ TotalGroupsOverview
    \/ TotalPositionsOverview
    \/ AvgStaffUnitOverview
SpecFilters == FiltersSpecInit /\ [][FiltersNext]_vars

JobStatsSpecInit ==
    AppInit(FilterFileInputs, {"multi"}) /\ MetricsIdle /\ TitlesIdle
JobStatsNext ==
    \/ \E c \in {WCC, HCC, COMPARE} : SelectCouncil(c)
    \/ \E k \in JobCategoryInputs : SelectJobCategory(k)
    \/ \E text \in JobSearchInputs : TypeJobSearch(text)
    \/ JobStats
SpecJobStats == JobStatsSpecInit /\ [][JobStatsNext]_vars

SpanInit ==
    AppInit(SpanFileInputs, {"multi", "myhcc"}) /\ MetricsIdle /\ TitlesIdle
SpanNext ==
    \/ \E c \in {WCC, HCC, COMPARE} : SelectCouncil(c)
    \/ SpanOfControl
    \/ MyHccPrepare
    \/ \E g \in {Lit.All, Lit.Strategy_Engagement, Lit.Parks} : MyHccSelectGroup(g)
    \/ \E m \in {Lit.All, Lit.Manager, Lit.Policy_Analyst, Lit.No_Manager} :
           MyHccSelectManager(m)
    \/ \E t \in {"top_positions", "manager_span", "group_division"} :
           SelectAnalysisType(t)
    \/ AnalysisSummary
SpecSpan == SpanInit /\ [][SpanNext]_vars

CompareInit ==
    AppInit(CompareFileInputs, {"multi"}) /\ MetricsIdle /\ TitlesIdle
CompareNext ==
    \/ \E c \in {WCC, HCC, COMPARE} : SelectCouncil(c)
    \/ \E g \in Range(choices.filter_group) : SelectGroup(g)
    \/ DepartmentMapping
    \/ GroupSizeComparison
    \/ FunctionalComparison
SpecCompare == CompareInit /\ [][CompareNext]_vars

SampleInit ==
    AppInit(SampleFileInputs, {"multi"}) /\ MetricsIdle /\ TitlesIdle
SampleNext == (\E c \in {WCC, HCC, COMPARE} : SelectCouncil(c)) \/ JobOverlap
SpecSample == SampleInit /\ [][SampleNext]_vars


(***************************************************************************)
(* Properties of the group mapping tables.                                 *)
(***************************************************************************)
\* The first pair of the table, in table order, whose target is b.
FirstKeyFor(b) ==
    LET i == CHOOSE i \in 1..Len(GroupMappingItems) :
                /\ GroupMappingItems[i][2] = b
                /\ \A j \in 1..(i - 1) : GroupMappingItems[j][2] # b
    IN  GroupMappingItems[i][1]

\* C5: for every pair (a -> b) of GROUP_MAPPINGS, REVERSE_GROUP_MAPPINGS[b]
\* is a when no other pair has target b, and the key that comes first in
\* table order when several keys map to b (no later pair overwrites it).
C5_ReverseFirstWins ==
    app = "multi" =>
        \A i \in 1..Len(GroupMappingItems) :
            LET b == GroupMappingItems[i][2]
            IN  /\ DictHas(REVERSE_GROUP_MAPPINGS, b)
                /\ DictGet(REVERSE_GROUP_MAPPINGS, b) = FirstKeyFor(b)

(***************************************************************************)
(* Properties of the job-title classifiers.                                *)
(***************************************************************************)
\* word occurs in text, stated position by position.
OccursIn(word, text) ==
    \E start \in 1..Len(text) :
        \A j \in 1..Len(word) :
            start + j - 1 <= Len(text) /\ text[start + j - 1] = word[j]

SomeOccursIn(words, text) == \E i \in 1..Len(words) : OccursIn(words[i], text)

MinOf(S) == CHOOSE m \in S : \A x \in S : m <= x

CategoryLists ==
    << CategoryManagementWords, CategoryProfessionalWords,
       CategoryTechnicalWords, CategoryAdministrativeWords,
       CategoryOperationalWords >>
CategoryNames ==
    << "Management", "Professional", "Technical", "Administrative",
       "Operational" >>

LevelLists ==
    << LevelExecutiveWords, LevelManagementWords, LevelSeniorWords,
       LevelJuniorWords >>
LevelNames == << "Executive", "Management", "Senior", "Junior" >>

\* The name of the first list, in priority order, with a keyword in the
\* lower-cased text; otherwise the default.
ExpectedClass(lists, names, default, text) ==
    LET lowered == StrLower(text)
        matched == {k \in 1..Len(lists) : SomeOccursIn(lists[k], lowered)}
    IN  IF matched = {} THEN default ELSE names[MinOf(matched)]

IsNonEmptyTitle(cell) == ~cell.na /\ cell.s # <<>>

\* C6: for a non-empty title categorize_job_title returns the category of
\* the highest-priority keyword list (Management > Professional > Technical
\* > Administrative > Operational) with a keyword in the lower-cased title,
\* 'Other' when none matches, and the same for every letter case.
C6_CategoryPriority ==
    (category # NotRun /\ IsNonEmptyTitle(title_cell)) =>
        /\ category = ExpectedClass(CategoryLists, CategoryNames, "Other",
                                    title_cell.s)
        /\ \A case \in LetterCases :
             category = categorize_job_title(
                            Str(ApplyCase(StrLower(title_cell.s), case)))
        /\ category = categorize_job_title(Str(StrUpper(title_cell.s)))

\* A title in upper case with keywords of two lists was categorized by the
\* list of higher priority.
C6_Witness ==
    /\ category = "Professional"
    /\ IsNonEmptyTitle(title_cell)
    /\ title_cell.s = StrUpper(title_cell.s)
    /\ SomeOccursIn(CategoryTechnicalWords, StrLower(title_cell.s))
    /\ SomeOccursIn(CategoryProfessionalWords, StrLower(title_cell.s))

\* C7: for a non-empty title get_job_level returns the level of the
\* highest-priority keyword list (Executive > Management > Senior > Junior)
\* with a keyword in the lower-cased title, 'Mid-level' when none matches,
\* and 'Unknown' for the empty title; 'team leader' (which contains 'lead')
\* is Management.
C7_LevelPriority ==
    (level # NotRun /\ ~title_cell.na) =>
        /\ IsNonEmptyTitle(title_cell) =>
             level = ExpectedClass(LevelLists, LevelNames, "Mid-level",
                                   title_cell.s)
        /\ title_cell.s = <<>> => level = "Unknown"
        /\ (OccursIn(LevelManagementWords[2], StrLower(title_cell.s))
            /\ ~SomeOccursIn(LevelExecutiveWords, StrLower(title_cell.s)))
             => level = "Management"

\* 'Team leader' was levelled: it matches a Management and a Senior keyword.
C7_Witness ==
    /\ level = "Management"
    /\ IsNonEmptyTitle(title_cell)
    /\ StrLower(title_cell.s) = LevelManagementWords[2]
    /\ SomeOccursIn(LevelSeniorWords, StrLower(title_cell.s))

(***************************************************************************)
(* Properties of the normalisation.                                        *)
(***************************************************************************)
StaffTotal(rows) == Sum([i \in 1..Len(rows) |-> rows[i].StaffCount])

\* The star-schema join of the current view, before the job columns are
\* derived from it.
JoinedRecords ==
    WccJoin(staff, business_units(csv, council_select),
            business_groups(csv, council_select),
            job_titles(csv, council_select),
            pay_locations(csv, council_select))

InWccView == app = "multi" /\ council_select = WCC

\* C8: when a record's job title is null (a failed title lookup of the left
\* join) or empty, normalization derives jobCategory 'Other' and jobLevel
\* 'Unknown' for that record and does not raise.
C8_NullTitleNormalized ==
    (/\ InWccView
     /\ Ok(JoinedRecords)
     /\ \E i \in 1..Len(JoinedRecords.rows) : JoinedRecords.rows[i].JobTitle.na)
    => /\ Ok(merged)
       /\ Len(merged.rows) = Len(JoinedRecords.rows)
       /\ \A i \in 1..Len(merged.rows) :
            merged.rows[i].JobTitle.na =>
                /\ merged.rows[i].JobCategory = "Other"
                /\ merged.rows[i].JobLevel = "Unknown"

AllWccFilesExist == \A f \in wcc_files : csv[f].exists

UniqueIds(file, key) ==
    \A i, j \in 1..Len(file.rows) :
        file.rows[i][key] = file.rows[j][key] => i = j

DimensionIdsUnique ==
    /\ UniqueIds(csv.BusinessUnits, "UnitID")
    /\ UniqueIds(csv.BusinessGroups, "GroupID")
    /\ UniqueIds(csv.JobTitles, "TitleID")
    /\ UniqueIds(csv.PayLocations, "LocationID")

\* merged_data has been evaluated on the star-schema tables.
StarRecordsComputed ==
    \/ InWccView
    \/ app = "mywcc" /\ merged # NotComputed

\* C9: with unique dimension ids merged_data yields exactly one unified
\* record per StaffAssignments row, also where a unit, group, title or
\* location lookup fails: record count and total staffCount are those of
\* the fact table.
C9_OneRecordPerFactRow ==
    (StarRecordsComputed /\ AllWccFilesExist /\ DimensionIdsUnique) =>
        /\ Ok(merged)
        /\ Len(merged.rows) = Len(csv.StaffAssignments.rows)
        /\ StaffTotal(merged.rows) = StaffTotal(csv.StaffAssignments.rows)

\* t is s without its leading and trailing whitespace: s is whitespace,
\* then t, then whitespace, and t neither starts nor ends with whitespace.
IsStripOf(t, s) ==
    /\ t = <<>> \/ (t[1] \notin Whitespace /\ t[Len(t)] \notin Whitespace)
    /\ \E a \in 0..Len(s) :
         /\ a + Len(t) <= Len(s)
         /\ SubSeq(s, a + 1, a + Len(t)) = t
         /\ \A i \in 1..Len(s) :
              (i <= a \/ i > a + Len(t)) => s[i] \in Whitespace

\* The part of s between its surrounding whitespace.
CoreOf(s) ==
    CHOOSE t \in {SubSeq(s, a, b) : a \in 1..(Len(s) + 1), b \in 0..Len(s)} :
        IsStripOf(t, s)

\* groupby('Group') sum of StaffCount for one group name.
GroupStaff(rows, g) ==
    Sum([i \in 1..Len(rows) |-> IF rows[i].Group = g THEN rows[i].StaffCount ELSE 0])

\* The records df come one per raw row, with staffCount 1 and the stripped
\* group name, and rows with the same stripped name form one group whose
\* total is their number.
FlatRowsNormalized(df, raw, counted) ==
    /\ Ok(df)
    /\ Len(df.rows) = Len(raw)
    /\ \A i \in 1..Len(raw) :
         /\ counted => df.rows[i].StaffCount = 1
         /\ df.rows[i].Group.na = raw[i].Group.na
         /\ ~raw[i].Group.na => IsStripOf(df.rows[i].Group.s, raw[i].Group.s)
    /\ \A i \in 1..Len(raw) :
         ~raw[i].Group.na =>
            LET same == {j \in 1..Len(raw) :
                            /\ ~raw[j].Group.na
                            /\ CoreOf(raw[j].Group.s) = CoreOf(raw[i].Group.s)}
            IN  /\ \A j \in same : df.rows[j].Group = df.rows[i].Group
                /\ counted =>
                     GroupStaff(df.rows, df.rows[i].Group) = Cardinality(same)

\* C10: every row of the flat table becomes one record with staffCount 1
\* and a group name stripped of surrounding whitespace; rows whose raw group
\* names differ only in surrounding whitespace form a single group whose
\* staff total is the number of those rows.
C10_FlatRowsNormalized ==
    /\ (app = "multi" /\ council_select \in {HCC, COMPARE}
        /\ csv.hccpositioninfo.exists)
         => FlatRowsNormalized(hcc, csv.hccpositioninfo.rows, TRUE)
    /\ (app = "myhcc" /\ merged # NotComputed /\ csv.hccpositioninfo.exists)
         => FlatRowsNormalized(merged, csv.hccpositioninfo.rows, FALSE)

(***************************************************************************)
(* Properties of the loaders when a table is missing.                      *)
(***************************************************************************)
InStarView == app = "multi" /\ council_select \in {WCC, COMPARE}

\* The records of merged that come from the star-schema tables (in the
\* comparison view the others carry Council = 'Hutt').
StarRecords(df) ==
    SelectSeq(df.rows,
              LAMBDA r : ~("Council" \in DOMAIN r /\ r.Council = Str(Lit.Hutt)))

\* C11: when StaffAssignments.csv is absent the star-schema record set is
\* empty (zero records, total staff 0) whichever other tables are present;
\* no record is produced that does not come from an input row.
C11_AbsentFactTableIsEmpty ==
    (InStarView /\ ~csv.StaffAssignments.exists) =>
        /\ IsEmpty(staff)
        /\ Ok(merged)
        /\ StarRecords(merged) = <<>>

DimensionTables == {"BusinessUnits", "BusinessGroups", "JobTitles", "PayLocations"}

\* C12: when StaffAssignments.csv is present and one of the dimension tables
\* is absent, merged_data completes without raising and yields the records
\* (null values for that dimension) or an empty record set.
C12_AbsentDimensionTolerated ==
    (/\ InStarView
     /\ csv.StaffAssignments.exists
     /\ Cardinality({f \in DimensionTables : ~csv[f].exists}) = 1)
    => /\ Ok(merged)
       /\ Len(StarRecords(merged)) \in {0, Len(csv.StaffAssignments.rows)}

(***************************************************************************)
(* Properties of the reconciliation report (Council Comparison tab).       *)
(***************************************************************************)
\* Total staffCount of the normalized HCC records of group a: one per row of
\* the flat table whose group name, without surrounding whitespace, is a.
HccStaffOf(a) ==
    LET raw == csv.hccpositioninfo.rows
    IN  Cardinality({i \in 1..Len(raw) :
                        ~raw[i].Group.na /\ IsStripOf(a, raw[i].Group.s)})

\* Total staffCount of the WCC records of group b: the fact rows whose unit
\* belongs to a group named b.
WccStaffOf(b) ==
    LET sa == csv.StaffAssignments.rows
        bu == csv.BusinessUnits.rows
        bg == csv.BusinessGroups.rows
    IN  Sum([i \in 1..Len(sa) |->
               sa[i].StaffCount *
               Cardinality({ug \in (1..Len(bu)) \X (1..Len(bg)) :
                               /\ bu[ug[1]].UnitID = sa[i].UnitID
                               /\ bg[ug[2]].GroupID = bu[ug[1]].GroupID
                               /\ bg[ug[2]].GroupName = Str(b)})])

ReportRendered == app = "multi" /\ mapping # NotRendered

\* C13: for every key a of GROUP_MAPPINGS with target b the report has a
\* record (a, b, Direct, 1.0, sourceStaffTotal, targetStaffTotal) whose
\* source total is the staff of the normalized HCC records of group a and
\* whose target total is the staff of the WCC records of group b.
C13_DirectRecordTotals ==
    ReportRendered =>
        /\ mapping.status = "ok"
        /\ \A k \in 1..Len(GroupMappingItems) :
             LET a == GroupMappingItems[k][1]
                 b == GroupMappingItems[k][2]
             IN  /\ \E i \in 1..Len(mapping.rows) :
                      /\ mapping.rows[i].HCC_Group = a
                      /\ mapping.rows[i].WCC_Equivalent = b
                      /\ mapping.rows[i].Match_Quality = Quality.Direct
                      /\ mapping.rows[i].HCC_Staff = HccStaffOf(a)
                      /\ mapping.rows[i].WCC_Staff = WccStaffOf(b)
                 /\ alignment # NotRendered =>
                      \E i \in 1..Len(alignment.rows) :
                         /\ alignment.rows[i].HCC_Group = a
                         /\ alignment.rows[i].WCC_Group = b
                         /\ alignment.rows[i].Alignment = Quality.Direct
                         /\ alignment.rows[i].Score = Frac(1, 1)

\* The group names of the normalized HCC records.
HccGroupsWithStaff ==
    {a \in {Strip(csv.hccpositioninfo.rows[i].Group.s) :
              i \in {j \in 1..Len(csv.hccpositioninfo.rows) :
                       ~csv.hccpositioninfo.rows[j].Group.na}} :
        HccStaffOf(a) > 0}

\* C14: every HCC group that has staff and is no key of GROUP_MAPPINGS has
\* a record in the report, with matchQuality None and WCC staff total 0.
C14_UnmappedSourceGroupListed ==
    ReportRendered =>
        \A a \in HccGroupsWithStaff :
            ~DictHas(GROUP_MAPPINGS, a) =>
                \E i \in 1..Len(mapping.rows) :
                    /\ mapping.rows[i].HCC_Group = a
                    /\ mapping.rows[i].Match_Quality = Quality.None
                    /\ mapping.rows[i].WCC_Staff = 0

\* The WCC groups with staff that are the target of no mapping.
WccOnlyGroups ==
    {b \in {csv.BusinessGroups.rows[g].GroupName.s :
              g \in 1..Len(csv.BusinessGroups.rows)} :
        /\ WccStaffOf(b) > 0
        /\ \A k \in 1..Len(GroupMappingItems) : GroupMappingItems[k][2] # b}

\* C15: every record of the report has matchQuality Direct, Fuzzy or None;
\* the record of a group of one organization only (also a WCC group that is
\* the target of no mapping) has matchQuality None and counterpart total 0.
C15_MatchQualityDomain ==
    (ReportRendered /\ mapping.status = "ok") =>
        \A i \in 1..Len(mapping.rows) :
            /\ mapping.rows[i].Match_Quality \in
                  {Quality.Direct, <<"F","u","z","z","y">>, Quality.None}
            /\ mapping.rows[i].WCC_Equivalent \in WccOnlyGroups =>
                  /\ mapping.rows[i].Match_Quality = Quality.None
                  /\ mapping.rows[i].HCC_Staff = 0

\* C16: the rows of the report are ordered by matchQuality and, within one
\* matchQuality, by staff-count difference in descending order.
C16_SortedByQualityThenDifference ==
    (ReportRendered /\ mapping.status = "ok") =>
        \A i, j \in 1..Len(mapping.rows) :
            i < j =>
                /\ ~StrLess(mapping.rows[j].Match_Quality,
                            mapping.rows[i].Match_Quality)
                /\ mapping.rows[i].Match_Quality = mapping.rows[j].Match_Quality
                     => /\ mapping.rows[i].Staff_Difference
                             >= mapping.rows[j].Staff_Difference
                        /\ mapping.rows[i].Staff_Difference =
                             Abs(mapping.rows[i].HCC_Staff
                                 - mapping.rows[i].WCC_Staff)

\* C17: the downloadable mapping report has exactly the fields HCC Group,
\* HCC Staff, WCC Equivalent, WCC Staff, Match Quality, Staff Difference, in
\* that order: the fields of the on-screen department mapping table.
C17_DownloadHasReportFields ==
    (app = "multi" /\ download # NotRendered) =>
        /\ download.status = "ok"
        /\ download.columns =
              <<"HCC Group", "HCC Staff", "WCC Equivalent", "WCC Staff",
                "Match Quality", "Staff Difference">>
        /\ (ReportRendered /\ mapping.status = "ok" /\ mapping.rows # <<>>)
              => download.columns = mapping.columns

(***************************************************************************)
(* Properties of the job-title fuzzy fallback (job_overlap).               *)
(***************************************************************************)
\* job_overlap has compared the titles of the two councils.
OverlapComputed ==
    /\ app = "multi" /\ overlap # NotRendered
    /\ overlap.status = "ok" /\ overlap.computed

\* M and T of the similarity ratio 2*M/T of two titles.
MatchedOf(h, w) == MatchedChars(h.s, w.s, 1, Len(h.s), 1, Len(w.s))
TotalOf(h, w) == Len(h.s) + Len(w.s)

\* Some candidate is more than 80% similar to h: 2*M/T > 8/10.
HasSimilarCandidate(h, candidates) ==
    \E w \in candidates : 10 * MatchedOf(h, w) > 4 * TotalOf(h, w)

\* score is the largest ratio of h against the candidates.
IsBestRatio(score, h, candidates) ==
    /\ \E w \in candidates : FracEq(score, Frac(2 * MatchedOf(h, w), TotalOf(h, w)))
    /\ \A w \in candidates : FracLeq(Frac(2 * MatchedOf(h, w), TotalOf(h, w)), score)

\* The titles compared are strings, no more than the sample holds.
TitlesComparable ==
    /\ app = "multi" /\ overlap # NotRendered
    /\ council_select = COMPARE
    /\ csv.hccpositioninfo.rows # <<>> /\ csv.JobTitles.rows # <<>>
    /\ \A i \in 1..Len(csv.JobTitles.rows) : ~csv.JobTitles.rows[i].JobTitle.na
    /\ Len(csv.JobTitles.rows) <= SampleCap
    /\ Len(csv.hccpositioninfo.rows) <= SampleCap

C19_TieBreakLexicographic ==
    OverlapComputed =>
        \A p \in 1..Len(overlap.best) :
            AboveThreshold(overlap.best[p].best_score) =>
                LET h == overlap.best[p].hcc_title
                    top == {w \in overlap.wcc_only :
                              IsBestRatio(Frac(2 * MatchedOf(h, w), TotalOf(h, w)),
                                          h, overlap.wcc_only)}
                IN  /\ Len(overlap.best[p].best_match) = 1
                    /\ overlap.best[p].best_match[1] \in top
                    /\ \A w \in top \ {overlap.best[p].best_match[1]} :
                          StrLess(overlap.best[p].best_match[1].s, w.s)

\* C20: two titles, one per council, that are identical after lower-casing
\* and ignoring surrounding whitespace are an exact match or a similar match
\* of score 1.0, never a match of lower score and never unmatched.
C20_IdenticalTitlesScoreOne ==
    OverlapComputed =>
        \A i \in 1..Len(csv.hccpositioninfo.rows),
           j \in 1..Len(csv.JobTitles.rows) :
            LET th == csv.hccpositioninfo.rows[i].Job_Title
                tw == csv.JobTitles.rows[j].JobTitle
            IN  (/\ ~th.na /\ ~tw.na
                 /\ Strip(StrLower(th.s)) = Strip(StrLower(tw.s)))
                => \/ Str(StrLower(th.s)) \in overlap.common_titles
                   \/ \E p \in 1..Len(overlap.best) :
                         /\ overlap.best[p].hcc_title = Str(StrLower(th.s))
                         /\ FracEq(overlap.best[p].best_score, Frac(1, 1))
                         /\ AboveThreshold(overlap.best[p].best_score)


(***************************************************************************)
(* Properties of the job statistics.                                       *)
(***************************************************************************)
\* job_stats has rendered its statistics for the current filters.
JobStatsShown ==
    /\ app = "multi"
    /\ out.job_stats.status = "ok"
    /\ "diversity_pct" \in DOMAIN out.job_stats.value

\* The records job_stats works on, and their distinct job titles.
JobStatsRows == JobSearch(filtered, filters.job_search).rows

JobStatsTitles ==
    {JobStatsRows[i].JobTitle.s :
        i \in {j \in 1..Len(JobStatsRows) : ~JobStatsRows[j].JobTitle.na}}

TitleStaff(t) ==
    Sum([i \in 1..Len(JobStatsRows) |->
            IF JobStatsRows[i].JobTitle = Str(t)
            THEN JobStatsRows[i].StaffCount ELSE 0])

\* The shares of the titles, in the order of the titles.
TitleShares ==
    LET order == SortStrings(JobStatsTitles)
        total == Sum([i \in 1..Len(JobStatsRows) |-> JobStatsRows[i].StaffCount])
    IN  [k \in 1..Len(order) |-> TrueDivide(TitleStaff(order[k]), total)]

\* C21: whenever job_stats is computed over records with 0 or 1 distinct
\* job titles it does not raise and shows a diversity percentage of 0; with
\* n >= 2 distinct titles the percentage is H / ln(n) * 100, H being the
\* entropy of the titles' shares of the staff.
C21_DiversityGuarded ==
    /\ (app = "multi" /\ Ok(filtered) /\ ~IsEmpty(filtered)
        /\ out.job_stats.status # "not rendered") => JobStatsShown
    /\ JobStatsShown =>
          LET n == Cardinality(JobStatsTitles)
              pct == out.job_stats.value.diversity_pct
          IN  IF n <= 1 THEN pct = Frac(0, 1)
              ELSE /\ pct.kind = "pct"
                   /\ pct.max = [kind |-> "ln", of |-> n]
                   /\ pct.index = [kind |-> "entropy",
                                   probs |-> SelectSeq(TitleShares, IsNum)]

\* job_stats has shown 0% for records of a single job title.
C21_Witness ==
    /\ JobStatsShown
    /\ Cardinality(JobStatsTitles) = 1
    /\ out.job_stats.value.diversity_pct = Frac(0, 1)

(***************************************************************************)
(* Properties of the span of control.                                      *)
(***************************************************************************)
\* The manager titles of the rows, and the direct reports of a title.
ManagersOf(rows, none) ==
    {rows[i].Manager_Job_Title : i \in 1..Len(rows)} \ none

ReportsOf(rows, m) ==
    Cardinality({i \in 1..Len(rows) : rows[i].Manager_Job_Title = m})

ManagedPositions(rows, none) ==
    Cardinality({i \in 1..Len(rows) : rows[i].Manager_Job_Title \notin none})

SpanShown ==
    /\ app = "multi"
    /\ out.span_of_control.status = "ok"
    /\ "span_distribution" \in DOMAIN out.span_of_control.value

SummaryShown ==
    /\ app = "myhcc"
    /\ out.analysis_summary.status = "ok"
    /\ "total_managers" \in DOMAIN out.analysis_summary.value

\* C22: the span of control is computed over the managers only (a position
\* without a manager forms no entry): the distribution gives for each
\* observed k the number of managers with exactly k direct reports, its
\* counts add up to the number of managers, the sum of k * count(k) is the
\* number of positions that have a manager, and 1 <= min <= mean <= max.
C22_SpanOverManagersOnly ==
    /\ SpanShown =>
          LET d == out.span_of_control.value.span_distribution
              managers == ManagersOf(hcc.rows, {NaN})
          IN  /\ \A j \in 1..Len(d) :
                    /\ d[j][1] >= 1
                    /\ d[j][2] >= 1
                    /\ d[j][2] = Cardinality({m \in managers :
                                                ReportsOf(hcc.rows, m) = d[j][1]})
              /\ \A i, j \in 1..Len(d) : i < j => d[i][1] < d[j][1]
              /\ \A m \in managers :
                    \E j \in 1..Len(d) : d[j][1] = ReportsOf(hcc.rows, m)
              /\ Sum([j \in 1..Len(d) |-> d[j][2]]) = Cardinality(managers)
              /\ Sum([j \in 1..Len(d) |-> d[j][1] * d[j][2]])
                    = ManagedPositions(hcc.rows, {NaN})
              /\ managers # {} =>
                    FracEq(out.span_of_control.value.avg_span,
                           Frac(ManagedPositions(hcc.rows, {NaN}),
                                Cardinality(managers)))
    /\ SummaryShown =>
          LET s == out.analysis_summary.value
              none == {Str(Lit.No_Manager)}
              managers == ManagersOf(filtered.rows, none)
          IN  /\ s.total_managers = Cardinality(managers)
              /\ 1 <= s.min
              /\ FracLeq(Frac(s.min, 1), s.mean)
              /\ FracLeq(s.mean, Frac(s.max, 1))
              /\ \A m \in managers :
                    s.min <= ReportsOf(filtered.rows, m)
                    /\ ReportsOf(filtered.rows, m) <= s.max
              /\ FracEq(s.mean, Frac(ManagedPositions(filtered.rows, none),
                                     s.total_managers))

\* The distribution has been charted for positions of which one has no
\* manager and two report to the same title.
C22_Witness ==
    /\ SpanShown
    /\ \E i \in 1..Len(hcc.rows) : hcc.rows[i].Manager_Job_Title.na
    /\ \E j \in 1..Len(out.span_of_control.value.span_distribution) :
          out.span_of_control.value.span_distribution[j][1] >= 1

(***************************************************************************)
(* Properties of the group names of the unified records.                   *)
(***************************************************************************)
\* The sum of the per-group totals of df.groupby('GroupName')['StaffCount'].
GroupedStaff(df) ==
    Sum([k \in 1..Len(GroupSums(df, "GroupName")) |->
            GroupSums(df, "GroupName")[k][2]])

\* C23: no unified record has an empty or missing group name (such names
\* are replaced by a placeholder), so the per-group staff totals add up to
\* the staff of all the records.
C23_NoBlankGroupName ==
    (app = "multi" /\ Ok(merged) /\ ~IsEmpty(merged)) =>
        /\ \A i \in 1..Len(merged.rows) :
              /\ ~merged.rows[i].GroupName.na
              /\ merged.rows[i].GroupName.s # <<>>
        /\ GroupedStaff(merged) = StaffSum(merged)

(***************************************************************************)
(* Properties of the aligned comparisons.                                  *)
(***************************************************************************)
\* What department_mapping and functional_comparison compute in the view c.
MappingInView(c) ==
    {department_mapping(csv, c, sa, hcc_data(csv, c)) :
        sa \in staff_assignments(csv, c)}

FunctionalInView(c) ==
    {functional_comparison(csv, merged_data(csv, c, sa, hcc_data(csv, c))) :
        sa \in staff_assignments(csv, c)}

\* C24: for fixed input tables the rows of the department-mapping report
\* and of the functional comparison are the same after any sequence of view
\* selections and filter changes: they are computed without error in every
\* view and do not depend on the selected view.
C24_ReportIndependentOfView ==
    /\ ReportRendered =>
          /\ mapping.status = "ok"
          /\ \A c \in OfferedCouncils(csv) : MappingInView(c) = {mapping}
    /\ (app = "multi" /\ out.functional_comparison.status # "not rendered") =>
          /\ out.functional_comparison.status = "ok"
          /\ \A c \in OfferedCouncils(csv) :
                FunctionalInView(c) = {out.functional_comparison}

(***************************************************************************)
(* Properties of the filters.                                              *)
(***************************************************************************)
\* The record r satisfies every active filter of the view.
PassesFilters(r) ==
    /\ filters.filter_group # Lit.All =>
          IF app = "multi" /\ council_select = COMPARE
             /\ filters.filter_group = Lit.All_WCC
          THEN r.Council = Str(Lit.Wellington)
          ELSE IF app = "multi" /\ council_select = COMPARE
                  /\ filters.filter_group = Lit.All_HCC
          THEN r.Council = Str(Lit.Hutt)
          ELSE r.GroupName = Str(filters.filter_group)
    /\ filters.filter_unit # Lit.All => r.UnitName = Str(filters.filter_unit)
    /\ (filters.filter_location # Lit.All
        /\ (app = "mywcc" \/ council_select = WCC)) =>
          r.LocationName = Str(filters.filter_location)
    /\ (app = "multi" /\ filters.job_category_filter # "All") =>
          r.JobCategory = filters.job_category_filter

FiltersApplied ==
    (app \in {"multi", "mywcc"} /\ Ok(merged) /\ merged # NotComputed) =>
        /\ Ok(filtered)
        /\ filtered.rows = SelectSeq(merged.rows, PassesFilters)

FilterChangeKeepsTables ==
    (filters' # filters /\ council_select' = council_select) =>
        /\ merged' = merged
        /\ csv' = csv
        /\ staff' = staff
        /\ hcc' = hcc

WccGroupNames ==
    {csv.BusinessGroups.rows[i].GroupName.s :
        i \in {j \in 1..Len(csv.BusinessGroups.rows) :
                 ~csv.BusinessGroups.rows[j].GroupName.na}}

WccGroupedStaff ==
    LET names == SortStrings(WccGroupNames)
    IN  Sum([k \in 1..Len(names) |-> WccStaffOf(names[k])])

\* No two of the rows name the same WCC group in the given field.
OneRowPerGroup(rows, field) ==
    \A i, j \in 1..Len(rows) :
        (i # j /\ rows[i][field] \in WccGroupNames) =>
            rows[i][field] # rows[j][field]

ChartRows(o) == IF "rows" \in DOMAIN o.value THEN o.value.rows ELSE <<>>

StaffRows(rows) == SelectSeq(rows, LAMBDA r : r.Metric = "Staff Count")

\* C26: in the department-mapping report and in the aligned group-size and
\* functional comparisons each WCC group appears in at most one row, so the
\* WCC staff column adds up to the staff of the WCC groups (of the groups
\* shown, in the comparisons that leave groups out).
C26_WccGroupInOneRow ==
    /\ (ReportRendered /\ mapping.status = "ok"
        /\ council_select \in {WCC, COMPARE}) =>
          /\ OneRowPerGroup(mapping.rows, "WCC_Equivalent")
          /\ Sum([i \in 1..Len(mapping.rows) |-> mapping.rows[i].WCC_Staff])
                = WccGroupedStaff
    /\ (app = "multi" /\ out.group_size_comparison.status = "ok") =>
          LET rows == ChartRows(out.group_size_comparison)
          IN  /\ OneRowPerGroup(rows, "Function")
              /\ Sum([i \in 1..Len(rows) |-> rows[i].Wellington])
                    <= WccGroupedStaff
    /\ (app = "multi" /\ out.functional_comparison.status = "ok") =>
          LET rows == StaffRows(ChartRows(out.functional_comparison))
          IN  /\ OneRowPerGroup(rows, "Function")
              /\ Sum([i \in 1..Len(rows) |-> rows[i].Wellington])
                    <= WccGroupedStaff

(***************************************************************************)
(* Properties of the sampled title comparison.                             *)
(***************************************************************************)
\* C27: for fixed sets of job titles the number of titles reported as
\* similar and their average similarity are the same for every enumeration
\* order of the sets, also when a set of unmatched titles is larger than
\* the sample of 50.
C27_SimilarCountOrderFree ==
    OverlapComputed =>
        \A f \in job_overlap(csv, council_select, hcc) :
            /\ f.status = "ok" /\ f.computed
            /\ f.values[4] = overlap.values[4]
            /\ f.avg_similarity = overlap.avg_similarity

\* The four figures of the Overview tab for the records df.
OverviewFigures(df) ==
    <<total_staff_overview(df), total_groups_overview(df),
      total_positions_overview(df), avg_staff_unit_overview(df)>>

JobCategoryChanged ==
    /\ app = "multi"
    /\ filters'.job_category_filter # filters.job_category_filter
    /\ filters' = [filters EXCEPT
                      !.job_category_filter = filters'.job_category_filter]

\* C28: the job-category filter restricts the Job Analysis outputs only:
\* the Overview figures (total staff, number of groups, unique positions,
\* average staff per unit) are the same before and after any change of the
\* job-category filter.
C28_OverviewIgnoresJobCategory ==
    [][JobCategoryChanged => OverviewFigures(filtered') = OverviewFigures(filtered)]_vars

\* The unit names of the records that the group filter g selects.
UnitsOfSelection(data, g, compare) ==
    {data.rows[i].UnitName.s :
        i \in {j \in 1..Len(data.rows) :
                 /\ ~data.rows[j].UnitName.na
                 /\ \/ g = Lit.All
                    \/ /\ compare /\ g = Lit.All_WCC
                       /\ data.rows[j].Council = Str(Lit.Wellington)
                    \/ /\ compare /\ g = Lit.All_HCC
                       /\ data.rows[j].Council = Str(Lit.Hutt)
                    \/ data.rows[j].GroupName = Str(g)}}

DataLoaded(data) == app \in {"multi", "mywcc"} /\ Ok(data) /\ ~IsEmpty(data)

InCompareView == app = "multi" /\ council_select = COMPARE

UnitChoicesFollowGroup ==
    (filters'.filter_group # filters.filter_group /\ DataLoaded(merged')) =>
        /\ choices'.status = "ok"
        /\ choices'.filter_unit =
              <<Lit.All>> \o SortStrings(UnitsOfSelection(
                    merged', filters'.filter_group, InCompareView'))
        /\ filters'.filter_unit = Lit.All

SelectedUnitOfGroup ==
    DataLoaded(merged) =>
        /\ choices.status = "ok"
        /\ filters.filter_unit \in
              {Lit.All} \cup UnitsOfSelection(merged, filters.filter_group,
                                              InCompareView)

\* C29: whenever the group filter changes while data is loaded,
\* update_unit_choices sets the unit choices to 'All' plus exactly the unit
\* names of the records of the selected group (of the selected council for
\* 'All WCC' and 'All HCC', of all records for 'All') and selects 'All';
\* so the selected unit is always 'All' or a unit of the selected group.
C29_UnitChoicesOfSelectedGroup ==
    [][UnitChoicesFollowGroup]_vars /\ []SelectedUnitOfGroup

\* The per-group WCC totals of department_mapping (inner joins of the fact
\* rows with the units and the groups) and of the unified records of the
\* comparison view (left joins, records of council 'Wellington').
WccInnerTotals ==
    IF IsEmpty(staff) THEN <<>>
    ELSE GroupSums(MergeInner(MergeInner(staff,
                                         business_units(csv, council_select),
                                         "UnitID"),
                              business_groups(csv, council_select), "GroupID"),
                   "GroupName")

WccLeftTotals ==
    GroupSums(WhereEq(merged, "Council", Str(Lit.Wellington)), "GroupName")

WccFactsLoaded == council_select = COMPARE /\ Ok(staff) /\ ~IsEmpty(staff)

\* C30: when the ids of the dimension tables are unique, the per-group WCC
\* staff totals of the inner joins of department_mapping equal the per-group
\* totals of the left-joined unified records, whatever the tables hold
\* (fact rows whose unit or group lookup fails included).
C30_InnerTotalsEqualLeftTotals ==
    (WccFactsLoaded /\ DimensionIdsUnique) =>
        /\ Ok(merged)
        /\ WccInnerTotals = WccLeftTotals

=============================================================================
